---------------------------- MODULE Spec2Model ----------------------------
(***************************************************************************)
(* A model of the AHS-Signatures placeholder engine (pdf.service: tag      *)
(* scanner, tag parser, stamper) and of the signing workflow around it     *)
(* (routes/signing.ts, routes/packets.ts).                                 *)
(*                                                                         *)
(* Text is modelled as sequences of one-character strings, so that the     *)
(* regular expressions of the source become predicates on the characters.  *)
(* Coordinates are integers (the source parses them with parseFloat).      *)
(***************************************************************************)
EXTENDS Integers, Sequences, FiniteSets, TLC

(***************************************************************************)
(* State.  The engine: the template `doc', the result of parsing it, the   *)
(* roles derived from that result, the                                     *)
(* stamps and the ValueMap of a stamping, its output and the result of     *)
(* parsing the output.  The tag parsers: a tag and what parseTag and       *)
(* parseTagInfo make of it.  The workflow: the packet's status, its        *)
(* recipients and signatures, the token generator and the clock, the       *)
(* position and locals of every request in flight, and how often the       *)
(* packet was stamped, completed and mailed.                               *)
(***************************************************************************)
VARIABLES doc, placeholders, roles, stamps, valueMap, outDoc, reparsed, epc
VARIABLES tag, tagPlaceholders, tagInfo, tpc
VARIABLES pstatus, recips, signatures, nextToken, now,
          hpc, hrid, hnext, apc, arid,
          stampCount, completedCount, completionEmails,
          reply, viewed
VARIABLES content, lastIndex, streamReplacements, result, spliceAt, spc

engineVars == <<doc, placeholders, roles, stamps, valueMap, outDoc, reparsed, epc>>
tagVars == <<tag, tagPlaceholders, tagInfo, tpc>>
handlerVars == <<hpc, hrid, hnext>>
adminVars == <<apc, arid>>
counters == <<stampCount, completedCount, completionEmails>>
answerVars == <<reply, viewed>>
flowVars == <<pstatus, recips, signatures, nextToken, now, handlerVars, adminVars, counters,
              answerVars>>
spliceVars == <<content, lastIndex, streamReplacements, result, spliceAt, spc>>
vars == <<engineVars, tagVars, flowVars, spliceVars>>

(***************************************************************************)
(* Characters and character classes of the regular expressions             *)
(***************************************************************************)
UpperAlpha == <<"A","B","C","D","E","F","G","H","I","J","K","L","M",
                "N","O","P","Q","R","S","T","U","V","W","X","Y","Z">>
LowerAlpha == <<"a","b","c","d","e","f","g","h","i","j","k","l","m",
                "n","o","p","q","r","s","t","u","v","w","x","y","z">>
Digits == {"0","1","2","3","4","5","6","7","8","9"}

Range(s) == {s[i] : i \in 1..Len(s)}

\* \d
IsDigit(c) == c \in Digits
\* \w  ==  [A-Za-z0-9_]
IsWordChar(c) == c \in Range(UpperAlpha) \cup Range(LowerAlpha) \cup Digits \cup {"_"}
\* \w+
IsWord(s) == Len(s) > 0 /\ \A i \in 1..Len(s) : IsWordChar(s[i])
\* \w*
IsWordOrEmpty(s) == \A i \in 1..Len(s) : IsWordChar(s[i])
\* \d*
AllDigits(s) == \A i \in 1..Len(s) : IsDigit(s[i])

\* String.prototype.toLowerCase, one character
LowerChar(c) ==
    IF \E i \in 1..26 : UpperAlpha[i] = c
    THEN LowerAlpha[CHOOSE i \in 1..26 : UpperAlpha[i] = c]
    ELSE c
ToLower(s) == [i \in 1..Len(s) |-> LowerChar(s[i])]

\* String.prototype.startsWith
StartsWith(s, p) == Len(s) >= Len(p) /\ SubSeq(s, 1, Len(p)) = p
\* the rest of s after a prefix of length n
Drop(s, n) == SubSeq(s, n + 1, Len(s))
\* String.prototype.includes
Includes(s, p) == \E i \in 0..(Len(s) - Len(p)) : SubSeq(s, i + 1, i + Len(p)) = p

(***************************************************************************)
(* Words of the tag grammars                                               *)
(***************************************************************************)
wSig == <<"S","i","g">>
wDate == <<"D","a","t","e">>
wDte == <<"D","t","e">>
wInt == <<"I","n","t">>
wint == <<"i","n","t">>
wdate == <<"d","a","t","e">>
wdte == <<"d","t","e">>
wsignature == <<"s","i","g","n","a","t","u","r","e">>
winitials == <<"i","n","i","t","i","a","l","s">>
wsigner == <<"s","i","g","n","e","r">>
wsigner1 == <<"s","i","g","n","e","r","1">>
wsigner2 == <<"s","i","g","n","e","r","2">>
wmanager == <<"m","a","n","a","g","e","r">>
wcomment == <<"c","o","m","m","e","n","t">>
wSIGNATURE == <<"S","I","G","N","A","T","U","R","E">>
wDATE == <<"D","A","T","E">>
wTEXT == <<"T","E","X","T">>
wEs == <<"_","e","s","_",":">>

(***************************************************************************)
(* Tags.  A brace tag is the text  {{ [*] pre _es_: role [: suf] }} , a    *)
(* bracket tag the text  [[ pre : role ]] .  `star' is the optional "*",   *)
(* `colon' says whether a second ":" and a suffix follow the role.         *)
(* The strings "SIGNATURE", "DATE", "TEXT" also occur as tags: they are    *)
(* the capture group that String.match returns beside the bracket tag      *)
(* (form "word").                                                          *)
(***************************************************************************)
BraceTag(star, pre, role, colon, suf) ==
    [g |-> "brace", star |-> star, pre |-> pre, role |-> role,
     colon |-> colon, suf |-> suf]
BracketTag(type, id) ==
    [g |-> "bracket", star |-> FALSE, pre |-> type, role |-> id,
     colon |-> FALSE, suf |-> << >>]
WordTag(w) ==
    [g |-> "word", star |-> FALSE, pre |-> w, role |-> << >>,
     colon |-> FALSE, suf |-> << >>]

\* the characters of a tag, as they stand in the stream
TagText(t) ==
    CASE t.g = "brace" ->
           <<"{","{">> \o (IF t.star THEN <<"*">> ELSE << >>) \o t.pre \o wEs
           \o t.role \o (IF t.colon THEN <<":">> \o t.suf ELSE << >>) \o <<"}","}">>
      [] t.g = "bracket" -> <<"[","[">> \o t.pre \o <<":">> \o t.role \o <<"]","]">>
      [] OTHER -> t.pre

\* what follows "_es_" in a brace tag, up to the closing braces
AfterEs(t) == <<":">> \o t.role \o (IF t.colon THEN <<":">> \o t.suf ELSE << >>)

BracketTypes == {wSIGNATURE, wDATE, wTEXT}

\* /\{\{\*?[^}]+_es_:[^}]*\}\}/  : at least one character stands between
\* "{{" and "_es_:" (the "*" itself may be that character)
MatchesBracePattern(t) == t.g = "brace" /\ (Len(t.pre) > 0 \/ t.star)
\* /\[\[(SIGNATURE|DATE|TEXT):[^\]]+\]\]/
MatchesBracketPattern(t) ==
    t.g = "bracket" /\ t.pre \in BracketTypes /\ Len(t.role) > 0
\* tagPatterns: either pattern
IsScanTag(t) == MatchesBracePattern(t) \/ MatchesBracketPattern(t)

(***************************************************************************)
(* parseTag (parseTemplatePlaceholders) and parseTagInfo (stamper)         *)
(***************************************************************************)
NoField == <<"<undefined>">>
Unparsed == [type |-> "NONE", role |-> << >>, fieldName |-> NoField]
Parsed(type, role, fieldName) == [type |-> type, role |-> role, fieldName |-> fieldName]

TypeName(w) == IF w = wSIGNATURE THEN "SIGNATURE" ELSE IF w = wDATE THEN "DATE" ELSE "TEXT"

\* /\[\[(SIGNATURE|DATE|TEXT):([^\]]+)\]\]/
customMatch(t) == MatchesBracketPattern(t)
customResult(t) ==
    IF t.pre = wTEXT THEN Parsed("TEXT", wsigner, t.role)
    ELSE Parsed(TypeName(t.pre), t.role, NoField)

\* /\{\{\*?Sig\d*_es_:(\w+):signature\}\}/
sigMatch(t) ==
    /\ t.g = "brace"
    /\ StartsWith(t.pre, wSig) /\ AllDigits(Drop(t.pre, 3))
    /\ IsWord(t.role)
    /\ t.colon /\ t.suf = wsignature

\* /\{\{\*?(?:Date\w*|Dte\d*)_es_:(\w+)?(?::date)?\}\}/ and the test that the
\* lower-cased tag includes 'date' or 'dte'
dateMatch(t) ==
    /\ t.g = "brace"
    /\ \/ StartsWith(t.pre, wDate) /\ IsWordOrEmpty(Drop(t.pre, 4))
       \/ StartsWith(t.pre, wDte) /\ AllDigits(Drop(t.pre, 3))
    /\ IsWordOrEmpty(t.role)
    /\ (t.colon => t.suf = wdate)
    /\ (Includes(ToLower(TagText(t)), wdate) \/ Includes(ToLower(TagText(t)), wdte))
\* variants that lose the defaults: the captured role as it is, and the
\* field name 'Date' whatever the prefix
dateRoleCaptured(t) == t.role
dateFieldNameDefault(t) == wDate
\* dateMatch[1] && dateMatch[1] !== 'date' ? dateMatch[1] : 'signer'
dateRole(t) == IF Len(t.role) > 0 /\ t.role # wdate THEN t.role ELSE wsigner
\* /\{\{\*?(\w+)_es_/ : the prefix, when it is made of word characters
dateFieldName(t) == IF IsWord(t.pre) THEN t.pre ELSE wDate

\* /\{\{\*?Int\d*_es_:(\w+)(?::initials)?\}\}/i
initMatch(t) ==
    /\ t.g = "brace"
    /\ StartsWith(ToLower(t.pre), wint) /\ AllDigits(Drop(t.pre, 3))
    /\ IsWord(t.role)
    /\ (t.colon => ToLower(t.suf) = winitials)

\* /\{\{\*?([^_]+)_es_:(\w+)(?::[^}]*)?\}\}/ : the captured field name is the
\* prefix, or "*" when the prefix is empty and the star stands for it
textFieldName(t) == IF Len(t.pre) > 0 THEN t.pre ELSE <<"*">>
textMatch(t) ==
    /\ t.g = "brace"
    /\ (Len(t.pre) > 0 \/ t.star)
    /\ ~ ("_" \in Range(t.pre))
    /\ IsWord(t.role)
\* tag.includes(':signature') || tag.includes(':date')
hasSigOrDateSuffix(t) ==
    Includes(AfterEs(t), <<":">> \o wsignature) \/ Includes(AfterEs(t), <<":">> \o wdate)
textSkipped(t) ==
    \/ hasSigOrDateSuffix(t)
    \/ StartsWith(textFieldName(t), wSig)
    \/ StartsWith(textFieldName(t), wDate)
    \/ StartsWith(textFieldName(t), wDte)

\* the brace rules, in the order both parsers try them
braceResult(t) ==
    IF sigMatch(t) THEN Parsed("SIGNATURE", t.role, NoField)
    ELSE IF dateMatch(t) THEN Parsed("DATE", dateRole(t), dateFieldName(t))
    ELSE IF initMatch(t) THEN Parsed("TEXT", t.role, wInt)
    ELSE IF textMatch(t) THEN
        (IF textSkipped(t) THEN Unparsed ELSE Parsed("TEXT", t.role, textFieldName(t)))
    ELSE Unparsed

\* parseTag: the bracket grammar first, then the brace rules
parseTag(t) == IF customMatch(t) THEN customResult(t) ELSE braceResult(t)

\* parseTagInfo: the brace rules first, then the bracket grammar
parseTagInfo(t) ==
    IF braceResult(t) # Unparsed THEN braceResult(t)
    ELSE IF customMatch(t) THEN customResult(t)
    ELSE Unparsed


(***************************************************************************)
(* Documents.  A document is the sequence of its numbered objects in file  *)
(* order.  A page object carries its /Contents references and the entries  *)
(* of its inline /XObject dictionary; a stream object carries its          *)
(* operators, whether its payload is flate-compressed, and the length of   *)
(* the payload in bytes.                                                   *)
(***************************************************************************)
PageObj(n, contents, xobj) ==
    [num |-> n, kind |-> "page", contents |-> contents, xobj |-> xobj,
     ops |-> << >>, flate |-> FALSE, len |-> 0]
\* a page object whose dictionary holds a nested dictionary before its
\* /Contents key (<< /Type /Page /Resources << ... >> /Contents 4 0 R >>):
\* objRegex  (\d+)\s+0\s+obj\s*<<([\s\S]*?)>>  ends its match at the first
\* ">>", so the /Contents key is not in the dictContent it captures
LatePageObj(n, contents, xobj) ==
    [num |-> n, kind |-> "latepage", contents |-> contents, xobj |-> xobj,
     ops |-> << >>, flate |-> FALSE, len |-> 0]
StreamObj(n, ops, flate, len) ==
    [num |-> n, kind |-> "stream", contents |-> << >>, xobj |-> << >>,
     ops |-> ops, flate |-> flate, len |-> len]

\* content-stream operators
Tm(e, f) == [op |-> "Tm", x |-> e, y |-> f]
Td(dx, dy) == [op |-> "Td", x |-> dx, y |-> dy]
Cm(e, f) == [op |-> "cm", x |-> e, y |-> f, shear |-> FALSE]
Do(n) == [op |-> "Do", name |-> n]
Tj(str) == [op |-> "Tj", str |-> str]
TJ(strs) == [op |-> "TJ", strs |-> strs]
\* the operators the stamper writes
SaveQ == [op |-> "q"]
RestoreQ == [op |-> "Q"]
ShearCm == [op |-> "cm", x |-> 0, y |-> 0, shear |-> TRUE]
Rg(r, g, b) == [op |-> "rg", r |-> r, g |-> g, b |-> b]

\* the pieces of a string literal: a tag, or other characters
TagPiece(t) == [k |-> "tag", tag |-> t]
TxtPiece(s) == [k |-> "txt", s |-> s]

\* a tag that a TJ array shows in two strings: the n-th of its two parts.
\* `at' says where the tag is cut: in one of its markers ("{{", "_es_:",
\* "}}", "[[", the type and its ":", "]]"), in its prefix, or in its role
PartPiece(t, at, n) == [k |-> "part", tag |-> t, at |-> at, n |-> n]
IsSplitPair(a, b) ==
    a.k = "part" /\ b.k = "part" /\ a.n = 1 /\ b.n = 2 /\ a.tag = b.tag /\ a.at = b.at
\* what stands between the two strings in the array:  )-20(
Kern == <<")", "-", "2", "0", "(">>
CutAfterFirst(w) == SubSeq(w, 1, 1) \o Kern \o SubSeq(w, 2, Len(w))
\* the tag as a pattern applied to the stream text matches it: the closing
\* parenthesis, the kerning number and the opening parenthesis are part of
\* the prefix or of the role
CutTag(t, at) ==
    IF at = "pre" THEN [t EXCEPT !.pre = CutAfterFirst(t.pre)]
    ELSE [t EXCEPT !.role = CutAfterFirst(t.role)]

RECURSIVE Concat(_)
Concat(ss) == IF ss = << >> THEN << >> ELSE Head(ss) \o Concat(Tail(ss))
\* fullText += text over the strings of an array: two parts that follow
\* each other are the tag again
RECURSIVE JoinParts(_)
JoinParts(ps) ==
    IF Len(ps) < 2 THEN ps
    ELSE IF IsSplitPair(ps[1], ps[2])
         THEN <<TagPiece(ps[1].tag)>> \o JoinParts(SubSeq(ps, 3, Len(ps)))
         ELSE <<Head(ps)>> \o JoinParts(Tail(ps))
FullText(strs) == JoinParts(Concat(strs))
\* the same array as the text of the stream: a tag cut in a marker is no
\* match of the tag patterns, a tag cut elsewhere is matched with the
\* characters between its parts
RECURSIVE RawParts(_)
RawParts(ps) ==
    IF Len(ps) < 2 THEN ps
    ELSE IF IsSplitPair(ps[1], ps[2])
         THEN (IF ps[1].at = "marker"
               THEN <<TxtPiece(CutAfterFirst(TagText(ps[1].tag)))>>
               ELSE <<TagPiece(CutTag(ps[1].tag, ps[1].at))>>)
              \o RawParts(SubSeq(ps, 3, Len(ps)))
         ELSE <<Head(ps)>> \o RawParts(Tail(ps))

\* the string literals an operator shows, as one sequence of pieces
\* (a TJ array's strings concatenated)
ShownPieces(o) ==
    IF o.op = "Tj" THEN o.str ELSE IF o.op = "TJ" THEN FullText(o.strs) ELSE << >>
\* all pieces of a stream's text, in order
RECURSIVE StreamPieces(_)
StreamPieces(ops) ==
    IF ops = << >> THEN << >> ELSE ShownPieces(Head(ops)) \o StreamPieces(Tail(ops))
\* the string literals of a stream as its text holds them, array by array
RawPieces(o) ==
    IF o.op = "Tj" THEN o.str ELSE IF o.op = "TJ" THEN RawParts(Concat(o.strs)) ELSE << >>
RECURSIVE StreamText(_)
StreamText(ops) ==
    IF ops = << >> THEN << >> ELSE RawPieces(Head(ops)) \o StreamText(Tail(ops))

\* pattern.test(text) for one of the tagPatterns
HasTag(pieces) ==
    \E i \in 1..Len(pieces) : pieces[i].k = "tag" /\ IsScanTag(pieces[i].tag)

Max(S) == CHOOSE m \in S : \A n \in S : n <= m
Min(S) == CHOOSE m \in S : \A n \in S : m <= n
Abs(n) == IF n < 0 THEN -n ELSE n

(***************************************************************************)
(* extractTagPositionsFromStream                                           *)
(***************************************************************************)
\* the last operator of kind `op' before position i (0 when there is none)
LastBefore(ops, i, op) ==
    IF \E j \in 1..(i - 1) : ops[j].op = op
    THEN Max({j \in 1..(i - 1) : ops[j].op = op})
    ELSE 0

\* the Td/TD deltas between positions from and to, summed
RECURSIVE TdSum(_, _, _)
TdSum(ops, from, to) ==
    IF from > to THEN [x |-> 0, y |-> 0]
    ELSE LET rest == TdSum(ops, from + 1, to)
         IN IF ops[from].op = "Td"
            THEN [x |-> ops[from].x + rest.x, y |-> ops[from].y + rest.y]
            ELSE rest

\* Method 1: the position of the (text) Tj at position i
TjPosition(ops, i) ==
    LET tm == LastBefore(ops, i, "Tm")
        cm == LastBefore(ops, i, "cm")
        td == IF tm > 0 THEN TdSum(ops, tm + 1, i - 1) ELSE [x |-> 0, y |-> 0]
        x0 == IF tm > 0 THEN ops[tm].x + td.x ELSE 0
        y0 == IF tm > 0 THEN ops[tm].y + td.y ELSE 0
        useCm == /\ (x0 = 0 \/ Abs(x0) < 50)
                 /\ cm > 0
                 /\ (ops[cm].x > 50 \/ ops[cm].y > 50)
    IN IF useCm THEN [x |-> ops[cm].x, y |-> ops[cm].y] ELSE [x |-> x0, y |-> y0]

\* Method 2: the position of the [...] TJ at position i: the last Tm alone
TJPosition(ops, i) ==
    LET tm == LastBefore(ops, i, "Tm")
    IN IF tm > 0 THEN [x |-> ops[tm].x, y |-> ops[tm].y] ELSE [x |-> 0, y |-> 0]

\* the results of Method 1, in stream order
RECURSIVE TjResults(_, _)
TjResults(ops, i) ==
    IF i > Len(ops) THEN << >>
    ELSE IF ops[i].op = "Tj" /\ HasTag(ops[i].str)
         THEN << [text |-> ops[i].str, x |-> TjPosition(ops, i).x,
                  y |-> TjPosition(ops, i).y] >> \o TjResults(ops, i + 1)
         ELSE TjResults(ops, i + 1)

\* Method 2 appends to the results; an array whose text is already among the
\* results is passed over
RECURSIVE TJResults(_, _, _)
TJResults(ops, i, results) ==
    IF i > Len(ops) THEN results
    ELSE IF /\ ops[i].op = "TJ"
            /\ HasTag(FullText(ops[i].strs))
            /\ ~ \E k \in 1..Len(results) : results[k].text = FullText(ops[i].strs)
         THEN TJResults(ops, i + 1,
                  Append(results, [text |-> FullText(ops[i].strs),
                                   x |-> TJPosition(ops, i).x,
                                   y |-> TJPosition(ops, i).y]))
         ELSE TJResults(ops, i + 1, results)

extractTagPositionsFromStream(ops) == TJResults(ops, 1, TjResults(ops, 1))

(***************************************************************************)
(* buildPageMaps                                                           *)
(***************************************************************************)
\* the page objects that have at least one /Contents reference
PageObjects(d) == {i \in 1..Len(d) : d[i].kind = "page" /\ Len(d[i].contents) > 0}
PageNums(d) == {d[i].num : i \in PageObjects(d)}
\* pageObjects.sort((a, b) => a.objNum - b.objNum) and the index of each
pageObjToIndex(d, n) == Cardinality({m \in PageNums(d) : m < n})
\* the position in the file of the page object that gets index k; of two
\* objects with one number the later overwrites the earlier in the maps
PageAt(d, k) ==
    Max({i \in PageObjects(d) : pageObjToIndex(d, d[i].num) = k})
NPages(d) == Cardinality(PageNums(d))
\* streamToPageIndex: a stream referenced by several pages keeps the last
HasPageIndex(d, n) ==
    \E i \in PageObjects(d) : \E c \in 1..Len(d[i].contents) : d[i].contents[c] = n
streamToPageIndex(d, n) ==
    Max({pageObjToIndex(d, d[i].num) :
           i \in {j \in PageObjects(d) :
                    \E c \in 1..Len(d[j].contents) : d[j].contents[c] = n}})

(***************************************************************************)
(* The streams of the file as the two stream regular expressions see them  *)
(***************************************************************************)
StreamIdx(d) == {i \in 1..Len(d) : d[i].kind = "stream"}
\* objStreamRegex  (\d+)\s+0\s+obj[\s\S]*?stream ... endstream : a match
\* starts at the first object header after the previous match and runs to
\* the next stream, so the number it captures is that first object's
ScanObjNum(d, i) ==
    LET prev == {j \in StreamIdx(d) : j < i}
    IN IF prev = {} THEN d[1].num ELSE d[Max(prev) + 1].num
\* `${contentObjNum}\s+0\s+obj[\s\S]*?stream ... endstream` : the first
\* stream at or after the header of object n (0: no match)
ContentStreamAt(d, n) ==
    IF \E i \in 1..Len(d) : d[i].num = n
    THEN LET h == Min({i \in 1..Len(d) : d[i].num = n})
         IN IF \E j \in StreamIdx(d) : j >= h
            THEN Min({j \in StreamIdx(d) : j >= h}) ELSE 0
    ELSE 0

(***************************************************************************)
(* findXObjectPlacements                                                   *)
(***************************************************************************)
\* allXobjectDicts: every non-empty /XObject << ... >> dictionary, in file
\* order; dict.get(name) is the last entry of that name
XObjectDicts(d) == {i \in 1..Len(d) : Len(d[i].xobj) > 0}
DictHas(xobj, name) == \E k \in 1..Len(xobj) : xobj[k].name = name
DictGet(xobj, name) == xobj[Max({k \in 1..Len(xobj) : xobj[k].name = name})].num

\* the (content stream, page) pairs in the order of streamToPageObj.entries():
\* pages by index, each page's references in order (a reference set twice
\* keeps its first place and its last page)
RECURSIVE ContentRefsFrom(_, _)
ContentRefsFrom(d, k) ==
    IF k >= NPages(d) THEN << >>
    ELSE d[PageAt(d, k)].contents \o ContentRefsFrom(d, k + 1)
RECURSIVE Dedup(_, _)
Dedup(s, seen) ==
    IF s = << >> THEN << >>
    ELSE IF Head(s) \in seen THEN Dedup(Tail(s), seen)
         ELSE <<Head(s)>> \o Dedup(Tail(s), seen \cup {Head(s)})
ContentRefs(d) == Dedup(ContentRefsFrom(d, 0), {})

\* the cm ... /Name Do pairs of a stream, in order
DoOperators(ops) ==
    {i \in 1..(Len(ops) - 1) : ops[i].op = "cm" /\ ops[i + 1].op = "Do"}

\* all (object, placement) candidates in the order the loops visit them:
\* content stream, Do operator, dictionary
RECURSIVE DictCandidates(_, _, _, _)
DictCandidates(d, dicts, o, pageIndex) ==
    IF dicts = {} THEN << >>
    ELSE LET i == Min(dicts)
         IN (IF DictHas(d[i].xobj, o.name)
             THEN << [obj |-> DictGet(d[i].xobj, o.name), pageIndex |-> pageIndex,
                      x |-> o.x, y |-> o.y] >>
             ELSE << >>) \o DictCandidates(d, dicts \ {i}, o, pageIndex)
RECURSIVE OpCandidates(_, _, _, _)
OpCandidates(d, ops, dos, pageIndex) ==
    IF dos = {} THEN << >>
    ELSE LET i == Min(dos)
         IN DictCandidates(d, XObjectDicts(d),
                           [name |-> ops[i + 1].name, x |-> ops[i].x, y |-> ops[i].y],
                           pageIndex)
            \o OpCandidates(d, ops, dos \ {i}, pageIndex)
RECURSIVE StreamCandidates(_, _)
StreamCandidates(d, refs) ==
    IF refs = << >> THEN << >>
    ELSE LET s == ContentStreamAt(d, Head(refs))
         IN (IF s = 0 THEN << >>
             ELSE OpCandidates(d, d[s].ops, DoOperators(d[s].ops),
                               streamToPageIndex(d, Head(refs))))
            \o StreamCandidates(d, Tail(refs))
PlacementCandidates(d) == StreamCandidates(d, ContentRefs(d))

\* placements.has(objNum) / placements.get(objNum): the first candidate wins
HasPlacement(d, n) ==
    \E k \in 1..Len(PlacementCandidates(d)) : PlacementCandidates(d)[k].obj = n
findXObjectPlacements(d, n) ==
    LET c == PlacementCandidates(d)
    IN c[Min({k \in 1..Len(c) : c[k].obj = n})]

(***************************************************************************)
(* findTagLocations                                                        *)
(***************************************************************************)
\* the per-stream size guard: streamData.length > 500000
SizeGuard == 500000
\* the scanner's streamData is what stands between "stream\n" and
\* "endstream": the payload and the end-of-line that follows it
EolLen == 1
ScanLength(o) == o.len + EolLen

\* decompressedText.match(pattern) with a pattern that has no g flag: the
\* first match only, followed by its capture groups
FirstMatch(pieces, Matches(_)) ==
    IF \E i \in 1..Len(pieces) : pieces[i].k = "tag" /\ Matches(pieces[i].tag)
    THEN LET i == Min({j \in 1..Len(pieces) :
                         pieces[j].k = "tag" /\ Matches(pieces[j].tag)})
         IN <<pieces[i].tag>>
    ELSE << >>
foundTags(pieces) ==
    LET brace == FirstMatch(pieces, MatchesBracePattern)
        bracket == FirstMatch(pieces, MatchesBracketPattern)
    IN brace \o bracket
       \o (IF bracket = << >> THEN << >> ELSE <<WordTag(bracket[1].pre)>>)

\* hasValidPosition = (baseX > 20 || baseY > 50)
hasValidPosition(x, y) == x > 20 \/ y > 50

\* the base position of a tagged stream: [ok, pageIndex, x, y]
StreamBase(d, i) ==
    LET n == ScanObjNum(d, i)
        results == extractTagPositionsFromStream(d[i].ops)
    IN IF HasPageIndex(d, n)
       THEN IF results = << >>
            THEN [ok |-> FALSE, pageIndex |-> streamToPageIndex(d, n), x |-> 0, y |-> 0]
            ELSE [ok |-> hasValidPosition(results[1].x, results[1].y),
                  pageIndex |-> streamToPageIndex(d, n),
                  x |-> results[1].x, y |-> results[1].y]
       ELSE IF HasPlacement(d, n)
            THEN LET pl == findXObjectPlacements(d, n)
                 IN [ok |-> hasValidPosition(pl.x, pl.y), pageIndex |-> pl.pageIndex,
                     x |-> pl.x, y |-> pl.y]
            ELSE [ok |-> FALSE, pageIndex |-> 0, x |-> 0, y |-> 0]

\* the locations one stream contributes
StreamLocations(d, i) ==
    LET tags == foundTags(StreamText(d[i].ops))
        base == StreamBase(d, i)
    IN IF ScanLength(d[i]) > SizeGuard \/ tags = << >> \/ ~ base.ok THEN << >>
       ELSE [k \in 1..Len(tags) |->
               [tag |-> tags[k], pageIndex |-> base.pageIndex,
                x |-> base.x, y |-> base.y, streamIndex |-> ScanObjNum(d, i)]]

RECURSIVE LocationsFrom(_, _)
LocationsFrom(d, i) ==
    IF i > Len(d) THEN << >>
    ELSE (IF d[i].kind = "stream" THEN StreamLocations(d, i) ELSE << >>)
         \o LocationsFrom(d, i + 1)
findTagLocations(d) == LocationsFrom(d, 1)

(***************************************************************************)
(* parseTemplatePlaceholders                                               *)
(***************************************************************************)
PlaceholderOf(loc) ==
    LET parsed == parseTag(loc.tag)
    IN [type |-> parsed.type, role |-> parsed.role, fieldName |-> parsed.fieldName,
        originalTag |-> loc.tag, pageNumber |-> loc.pageIndex + 1,
        x |-> loc.x, y |-> loc.y,
        width |-> IF parsed.type = "SIGNATURE" THEN 200
                  ELSE IF parsed.type = "DATE" THEN 100 ELSE 150,
        height |-> IF parsed.type = "SIGNATURE" THEN 50 ELSE 20]

RECURSIVE PlaceholdersOf(_)
PlaceholdersOf(locs) ==
    IF locs = << >> THEN << >>
    ELSE (IF parseTag(Head(locs).tag) = Unparsed THEN << >>
          ELSE <<PlaceholderOf(Head(locs))>>) \o PlaceholdersOf(Tail(locs))
parseTemplatePlaceholders(d) == PlaceholdersOf(findTagLocations(d))

\* getUniqueRoles: the roles in the order a Set keeps them, each once; a
\* placeholder's role is added unless its type is TEXT and its role is 'any'
wany == <<"a","n","y">>
RECURSIVE UniqueRolesFrom(_, _)
UniqueRolesFrom(ps, acc) ==
    IF ps = << >> THEN acc
    ELSE LET p == Head(ps)
             add == (p.type # "TEXT" \/ p.role # wany)
                    /\ ~ \E k \in 1..Len(acc) : acc[k] = p.role
         IN UniqueRolesFrom(Tail(ps), IF add THEN Append(acc, p.role) ELSE acc)
getUniqueRoles(ps) == UniqueRolesFrom(ps, << >>)

(***************************************************************************)
(* The stamper: replaceTagsWithValues and stampSignature                   *)
(***************************************************************************)
\* a ValueMap is a function from the keys <<type, name>> it holds to strings
NoValue == <<"<undefined>">>
MapGet(vm, key) == IF key \in DOMAIN vm THEN vm[key] ELSE NoValue
MapSet(vm, key, v) == [k \in DOMAIN vm \cup {key} |-> IF k = key THEN v ELSE vm[k]]
EmptyMap == [k \in {} |-> NoValue]

\* the lookup key of a parsed tag
ReplacementKey(info) ==
    IF info.type = "SIGNATURE" THEN <<"SIGNATURE", info.role>>
    ELSE IF info.type = "DATE"
         THEN <<"DATE", IF info.fieldName = NoField THEN wDate ELSE info.fieldName>>
         ELSE <<"TEXT", IF info.fieldName = NoField THEN info.role ELSE info.fieldName>>

\* getReplacementInfo: null unless the tag parses and `if (value)' holds,
\* which an absent entry and an empty string both fail
HasReplacement(vm, t) ==
    /\ parseTagInfo(t) # Unparsed
    /\ MapGet(vm, ReplacementKey(parseTagInfo(t))) # NoValue
    /\ MapGet(vm, ReplacementKey(parseTagInfo(t))) # << >>
ReplacementValue(vm, t) == MapGet(vm, ReplacementKey(parseTagInfo(t)))
ReplacementType(t) == parseTagInfo(t).type

\* escapePdfString: a backslash before every backslash and parenthesis
RECURSIVE escapePdfString(_)
escapePdfString(v) ==
    IF v = << >> THEN << >>
    ELSE (IF Head(v) \in {"\\", "(", ")"} THEN <<"\\", Head(v)>> ELSE <<Head(v)>>)
         \o escapePdfString(Tail(v))

\* the standalone pattern: every tag of a string that has a value becomes
\* the value as it is
ReplacePieces(vm, pieces) ==
    [i \in 1..Len(pieces) |->
       IF pieces[i].k = "tag" /\ IsScanTag(pieces[i].tag) /\ HasReplacement(vm, pieces[i].tag)
       THEN TxtPiece(ReplacementValue(vm, pieces[i].tag))
       ELSE pieces[i]]
\* an array of two strings that hold the two parts of a tag: the match
\* runs from the first string into the second, and its value stands in
\* one string
IsSplitArray(strs) ==
    Len(strs) = 2 /\ Len(strs[1]) = 1 /\ Len(strs[2]) = 1 /\ IsSplitPair(strs[1][1], strs[2][1])
ReplaceSplit(vm, strs) ==
    LET p == strs[1][1]
    IN IF p.at # "marker" /\ IsScanTag(CutTag(p.tag, p.at))
          /\ HasReplacement(vm, CutTag(p.tag, p.at))
       THEN << <<TxtPiece(ReplacementValue(vm, CutTag(p.tag, p.at)))>> >>
       ELSE strs
ReplaceStrings(vm, strs) ==
    IF IsSplitArray(strs) THEN ReplaceSplit(vm, strs)
    ELSE [i \in 1..Len(strs) |-> ReplacePieces(vm, strs[i])]

\* the (tag) Tj pattern: the operator whose string is the tag and nothing else
IsWholeTagTj(o) ==
    o.op = "Tj" /\ Len(o.str) = 1 /\ o.str[1].k = "tag" /\ IsScanTag(o.str[1].tag)

\* colours are written in tenths: 0 0 0.8 rg is Rg(0, 0, 8)
StyledSignature(v) ==
    << SaveQ, ShearCm, Rg(0, 0, 8), Tj(<<TxtPiece(escapePdfString(v))>>), RestoreQ,
       Rg(0, 0, 0) >>
StyledField(v) ==
    << Rg(0, 0, 10), Tj(<<TxtPiece(escapePdfString(v))>>), Rg(0, 0, 0) >>

\* one operator of an inflated stream after both patterns' passes
ReplaceOpInflated(vm, o) ==
    IF IsWholeTagTj(o) /\ HasReplacement(vm, o.str[1].tag)
    THEN IF ReplacementType(o.str[1].tag) = "SIGNATURE"
         THEN StyledSignature(ReplacementValue(vm, o.str[1].tag))
         ELSE StyledField(ReplacementValue(vm, o.str[1].tag))
    ELSE IF o.op = "Tj" THEN << Tj(ReplacePieces(vm, o.str)) >>
    ELSE IF o.op = "TJ" THEN << TJ(ReplaceStrings(vm, o.strs)) >>
    ELSE << o >>
\* one operator of a stream that is not inflated, in the pass over the raw
\* document text
ReplaceOpRaw(vm, o) ==
    IF o.op = "Tj" THEN << Tj(ReplacePieces(vm, o.str)) >>
    ELSE IF o.op = "TJ" THEN << TJ(ReplaceStrings(vm, o.strs)) >>
    ELSE << o >>

RECURSIVE ReplaceOps(_, _, _)
ReplaceOps(vm, ops, inflated) ==
    IF ops = << >> THEN << >>
    ELSE (IF inflated THEN ReplaceOpInflated(vm, Head(ops)) ELSE ReplaceOpRaw(vm, Head(ops)))
         \o ReplaceOps(vm, Tail(ops), inflated)

\* a stream after the stamper: an inflatable stream within the size guard
\* is rewritten by the stream pass; a stream that does not inflate is left
\* by the stream pass and its text is rewritten by the pass over the raw
\* document; a compressed stream beyond the guard is not touched
ReplaceStream(vm, o) ==
    IF o.flate
    THEN IF o.len > SizeGuard THEN o
         ELSE [o EXCEPT !.ops = ReplaceOps(vm, o.ops, TRUE)]
    ELSE [o EXCEPT !.ops = ReplaceOps(vm, o.ops, FALSE)]

replaceTagsWithValues(d, vm) ==
    [i \in 1..Len(d) |-> IF d[i].kind = "stream" THEN ReplaceStream(vm, d[i]) ELSE d[i]]

\* a stamp: the signer's role, typed name, text fields (field name -> value)
\* and the date string of its timestamp
Stamp(role, typedName, textFields, date) ==
    [role |-> role, typedName |-> typedName, textFields |-> textFields, date |-> date]

wDte1 == <<"D","t","e","1">>

\* textFields?.['Dte1'] || textFields?.['Date'] || timestamp.toLocaleDateString()
Truthy(v) == v # NoValue /\ v # << >>
dateValue(stamp) ==
    IF Truthy(MapGet(stamp.textFields, wDte1)) THEN stamp.textFields[wDte1]
    ELSE IF Truthy(MapGet(stamp.textFields, wDate)) THEN stamp.textFields[wDate]
    ELSE stamp.date

\* valueMap.set(`TEXT:${fieldName}`, value) for every entry of textFields
SetTextFields(vm, tf) ==
    [k \in DOMAIN vm \cup {<<"TEXT", f>> : f \in DOMAIN tf} |->
       IF k[1] = "TEXT" /\ k[2] \in DOMAIN tf THEN tf[k[2]] ELSE vm[k]]

\* the body of the loop over the stamps
SignatureKeys(stamp) ==
    { <<"SIGNATURE", stamp.role>>, <<"SIGNATURE", wsigner>>, <<"SIGNATURE", wsigner1>> }
AddStamp(vm, stamp) ==
    LET sigs == SignatureKeys(stamp)
        dates == { <<"DATE", wDte1>>, <<"DATE", wDate>>, <<"DATE", wdate>> }
        vm1 == [k \in DOMAIN vm \cup sigs \cup dates |->
                  IF k \in sigs THEN stamp.typedName
                  ELSE IF k \in dates THEN dateValue(stamp)
                  ELSE vm[k]]
    IN SetTextFields(vm1, stamp.textFields)

RECURSIVE BuildValueMap(_, _)
BuildValueMap(vm, ss) ==
    IF ss = << >> THEN vm
    ELSE BuildValueMap(AddStamp(vm, Head(ss)), Tail(ss))

\* stampSignature, up to the bytes handed to the PDF library for the final
\* load and re-save
stampSignature(d, ss) == replaceTagsWithValues(d, BuildValueMap(EmptyMap, ss))

(***************************************************************************)
(* The inputs the engine is run on                                         *)
(***************************************************************************)
wTitleA == <<"T","i","t","l","e","A">>
wSig2 == <<"S","i","g","2">>
wLic == <<"L","i","c","#">>
wEmployee == <<"E","m","p","l","o","y","e","e",":"," ">>

\* {{Sig_es_:signer1:signature}}, {{Sig2_es_:signer2:signature}},
\* {{TitleA_es_:signer1}}, [[SIGNATURE:manager]]
tSig1 == BraceTag(FALSE, wSig, wsigner1, TRUE, wsignature)
tSig2 == BraceTag(FALSE, wSig2, wsigner2, TRUE, wsignature)
tTitle == BraceTag(FALSE, wTitleA, wsigner1, FALSE, << >>)
tMgr == BracketTag(wSIGNATURE, wmanager)

\* how a show-text operator is positioned
PosSet ==
    { <<Tm(50, 700)>>, <<Tm(50, 600)>>, <<Tm(50, 700), Td(0, -20)>>,
      <<Cm(100, 200), Tm(10, 15)>>, << >> }
\* what it shows
ShowSet ==
    { Tj(<<TagPiece(tSig1)>>), Tj(<<TagPiece(tSig2)>>),
      Tj(<<TxtPiece(wEmployee), TagPiece(tTitle)>>), Tj(<<TagPiece(tMgr)>>),
      TJ(<< <<TagPiece(tSig1)>> >>) }
BlockSet == {p \o <<s>> : p \in PosSet, s \in ShowSet}

\* the number of show-text operators of a content stream
MaxBlocks == 2
RECURSIVE StreamsOf(_)
StreamsOf(n) ==
    IF n = 0 THEN { << >> }
    ELSE {b \o s : b \in BlockSet, s \in StreamsOf(n - 1)}
PageStreams == UNION {StreamsOf(n) : n \in 1..MaxBlocks}

SmallLen == 100

\* one page (object 1) and its content stream (object 3); the stream stands
\* before the page object in the file, or after it
OnePageDoc(ops, flate, streamFirst) ==
    IF streamFirst
    THEN << StreamObj(3, ops, flate, SmallLen), PageObj(1, <<3>>, << >>) >>
    ELSE << PageObj(1, <<3>>, << >>), StreamObj(3, ops, flate, SmallLen) >>

\* two pages (objects 1, 2) with content streams 3, 4 and a Form XObject
\* (object 5) that page 2 names Fm1 and draws with  cm /Fm1 Do
TwoPageDoc(xops, cm, flate) ==
    << StreamObj(3, <<Tm(50, 700), Tj(<<TxtPiece(wEmployee)>>)>>, flate, SmallLen),
       StreamObj(4, <<cm, Do("Fm1")>>, flate, SmallLen),
       StreamObj(5, xops, flate, SmallLen),
       PageObj(1, <<3>>, << >>),
       PageObj(2, <<4>>, << [name |-> "Fm1", num |-> 5] >>) >>

\* the content of the Form XObject: one show-text operator, positioned in
\* the XObject's own coordinates
XPosSet == { <<Tm(10, 15)>>, <<Tm(10, 15), Td(2, 3)>>, << >> }
XStreams == {p \o <<s>> : p \in XPosSet, s \in ShowSet}

\* two pages (objects 1, 2) with content streams 3, 4 and two Form XObjects:
\* object 5 shows the signer1 tag and is Fm1 in page 1's resources, object 6
\* shows the manager tag and is Fm1 in page 2's resources (dict2), when
\* page 2 has an /XObject dictionary at all
ScopedDoc(ops1, ops2, dict2) ==
    << StreamObj(3, ops1, TRUE, SmallLen),
       StreamObj(4, ops2, TRUE, SmallLen),
       StreamObj(5, <<Tm(10, 15), Tj(<<TagPiece(tSig1)>>)>>, TRUE, SmallLen),
       StreamObj(6, <<Tm(10, 15), Tj(<<TagPiece(tMgr)>>)>>, TRUE, SmallLen),
       PageObj(1, <<3>>, << [name |-> "Fm1", num |-> 5] >>),
       PageObj(2, <<4>>, dict2) >>
PlainText == <<Tm(50, 700), Tj(<<TxtPiece(wEmployee)>>)>>
ScopedDocs ==
    {ScopedDoc(ops1, ops2, dict2) :
        ops1 \in {PlainText, <<Cm(100, 200), Do("Fm1")>>},
        ops2 \in {PlainText, <<Cm(300, 400), Do("Fm1")>>},
        dict2 \in { << [name |-> "Fm1", num |-> 6] >>, << >> }}

\* {{Foo_es_:signer1:signature}}: the scan patterns match it, no rule of the
\* tag parsers accepts it
wFoo == <<"F","o","o">>
tFoo == BraceTag(FALSE, wFoo, wsigner1, TRUE, wsignature)
\* one page with two show-text operators, at (50, 700) and (50, 600)
FooShows ==
    { Tj(<<TagPiece(tFoo)>>), Tj(<<TxtPiece(wEmployee), TagPiece(tFoo)>>),
      Tj(<<TagPiece(tSig1)>>), Tj(<<TagPiece(tMgr)>>) }
FooDoc(s1, s2, flate) == OnePageDoc(<<Tm(50, 700), s1, Tm(50, 600), s2>>, flate, TRUE)
FooDocs == {FooDoc(s1, s2, flate) : s1 \in FooShows, s2 \in FooShows, flate \in BOOLEAN}

\* date tags: {{Dte1_es_:signer1:date}}, {{Dte2_es_:signer2:date}},
\* {{DateA_es_:signer1}}, [[DATE:manager]]
wDte2 == <<"D","t","e","2">>
wDateA == <<"D","a","t","e","A">>
tDte1 == BraceTag(FALSE, wDte1, wsigner1, TRUE, wdate)
tDte2 == BraceTag(FALSE, wDte2, wsigner2, TRUE, wdate)
tDateA == BraceTag(FALSE, wDateA, wsigner1, FALSE, << >>)
tDateMgr == BracketTag(wDATE, wmanager)
\* one page that shows one date tag at (50, 700)
DateDoc(t) == OnePageDoc(<<Tm(50, 700), Tj(<<TagPiece(t)>>)>>, TRUE, TRUE)
DateDocs == {DateDoc(t) : t \in {tDte1, tDte2, tDateA, tDateMgr}}

\* one page that shows one tag at (50, 700), in one Tj string or cut in
\* two strings of a TJ array
SplitShow(t, at) == TJ(<< <<PartPiece(t, at, 1)>>, <<PartPiece(t, at, 2)>> >>)
SplitDoc(t, at, flate) == OnePageDoc(<<Tm(50, 700), SplitShow(t, at)>>, flate, TRUE)
WholeDoc(t, flate) == OnePageDoc(<<Tm(50, 700), Tj(<<TagPiece(t)>>)>>, flate, TRUE)
SplitTags == {tSig1, tTitle, tMgr}
SplitDocs ==
    {SplitDoc(t, at, flate) : t \in SplitTags, at \in {"marker", "pre", "role"},
                              flate \in BOOLEAN}

\* one page that shows the signer1 tag at (50, 700) in a content stream
\* whose payload is as long as the size guard, one byte shorter or one
\* byte longer
SizedDoc(len, flate) ==
    << StreamObj(3, <<Tm(50, 700), Tj(<<TagPiece(tSig1)>>)>>, flate, len),
       PageObj(1, <<3>>, << >>) >>
SizedDocs ==
    {SizedDoc(len, flate) : len \in {SizeGuard - 1, SizeGuard, SizeGuard + 1},
                            flate \in BOOLEAN}

\* one page that shows the signer1 tag at (x, y), left of or below the
\* origin or near it
NegDoc(x, y) == OnePageDoc(<<Tm(x, y), Tj(<<TagPiece(tSig1)>>)>>, TRUE, TRUE)
NegDocs == {NegDoc(x, y) : x \in {-100, 10}, y \in {-200, 10, 700}}

\* one page that shows the text tag {{TitleA_es_:signer1}} at (50, 700)
BlankDocs == {WholeDoc(tTitle, flate) : flate \in BOOLEAN}

\* three page objects (1, 2, 7) whose content streams (3, 4, 5) show the
\* signer1, signer2 and manager tags at (50, 700); the second page object
\* is given in several forms
SecondPages ==
    { PageObj(2, <<4>>, << >>), PageObj(2, << >>, << >>), LatePageObj(2, <<4>>, << >>),
      PageObj(2, <<3, 4>>, << >>) }
ThreePageDoc(p2) ==
    << StreamObj(3, <<Tm(50, 700), Tj(<<TagPiece(tSig1)>>)>>, TRUE, SmallLen),
       StreamObj(4, <<Tm(50, 700), Tj(<<TagPiece(tSig2)>>)>>, TRUE, SmallLen),
       StreamObj(5, <<Tm(50, 700), Tj(<<TagPiece(tMgr)>>)>>, TRUE, SmallLen),
       PageObj(1, <<3>>, << >>), p2, PageObj(7, <<5>>, << >>) >>
ThreePageDocs == {ThreePageDoc(p2) : p2 \in SecondPages}

DocSet ==
    {OnePageDoc(ops, flate, sf) : ops \in PageStreams, flate \in BOOLEAN, sf \in BOOLEAN}
    \cup SplitDocs
    \cup SizedDocs
    \cup NegDocs
    \cup BlankDocs
    \cup ThreePageDocs
    \cup {TwoPageDoc(xops, cm, TRUE) : xops \in XStreams, cm \in {Cm(100, 200), Cm(0, 0)}}
    \cup ScopedDocs
    \cup FooDocs
    \cup DateDocs

\* values
vJane == <<"J","a","n","e">>
vBob == <<"B","o","b">>
vCEO == <<"C","E","O">>
vDay == <<"1","/","2">>
\* a value with a parenthesis and a backslash:  J(\
vParen == <<"J","(","\\">>

\* ValueMaps handed to replaceTagsWithValues
KeySig1 == <<"SIGNATURE", wsigner1>>
KeySig2 == <<"SIGNATURE", wsigner2>>
KeyMgr == <<"SIGNATURE", wmanager>>
KeyTitle == <<"TEXT", wTitleA>>
MapOf(keys, v) == [k \in keys |-> v]
ValueMapSet ==
    {MapOf(keys, vJane) : keys \in SUBSET {KeySig1, KeySig2, KeyMgr, KeyTitle}}
    \cup {MapOf({KeySig1, KeySig2, KeyMgr, KeyTitle}, << >>)}
    \cup {MapOf({KeySig1, KeyTitle}, vParen)}

\* stamps lists handed to stampSignature
FieldsTitle == [f \in {wTitleA} |-> vCEO]
StampSet ==
    { Stamp(wsigner1, vJane, FieldsTitle, vDay), Stamp(wsigner2, vBob, EmptyMap, vDay),
      Stamp(wmanager, vBob, EmptyMap, vDay) }
StampsSet ==
    { << >> } \cup {<<a>> : a \in StampSet}
    \cup {<<a, b>> : a \in StampSet, b \in StampSet}
\* stamps whose dates differ: signer1 signs on 1/2, signer2 on 3/4, and the
\* manager supplies the date text 5/6 in the field 'Date'
vDay2 == <<"3","/","4">>
vDay3 == <<"5","/","6">>
FieldsDate == [f \in {wDate} |-> vDay3]
DateStampSet ==
    { Stamp(wsigner1, vJane, EmptyMap, vDay), Stamp(wsigner2, vBob, EmptyMap, vDay2),
      Stamp(wmanager, vCEO, FieldsDate, vDay) }
DateStampsSet ==
    {<<a>> : a \in DateStampSet}
    \cup {ss \in {<<a, b>> : a \in DateStampSet, b \in DateStampSet} : ss[1] # ss[2]}
\* signer1 leaves the text field TitleA blank, or fills it in
FieldsBlank == [f \in {wTitleA} |-> << >>]
BlankStampsSet ==
    { <<Stamp(wsigner1, vJane, FieldsBlank, vDay)>>,
      <<Stamp(wsigner1, vJane, FieldsTitle, vDay)>>,
      <<Stamp(wsigner1, vJane, EmptyMap, vDay)>> }
\* the stamps lists a document is stamped with
StampsFor(d) ==
    IF d \in DateDocs THEN DateStampsSet
    ELSE IF d \in BlankDocs THEN BlankStampsSet
    ELSE StampsSet

(***************************************************************************)
(* The engine as a state machine: a template is loaded, parsed, stamped    *)
(* (by replaceTagsWithValues with a ValueMap, or by stampSignature with a  *)
(* list of stamps) and the output is parsed again.                         *)
(***************************************************************************)
EngineIdle ==
    /\ doc = << >>
    /\ placeholders = << >>
    /\ roles = << >>
    /\ stamps = << >>
    /\ valueMap = EmptyMap
    /\ outDoc = << >>
    /\ reparsed = << >>
    /\ epc = "idle"

EngineInit ==
    /\ doc \in DocSet
    /\ placeholders = << >>
    /\ roles = << >>
    /\ stamps = << >>
    /\ valueMap = EmptyMap
    /\ outDoc = << >>
    /\ reparsed = << >>
    /\ epc = "loaded"

\* parseTemplatePlaceholders(pdfBuffer)
Parse ==
    /\ epc = "loaded"
    /\ placeholders' = parseTemplatePlaceholders(doc)
    /\ epc' = "parsed"
    /\ UNCHANGED <<doc, roles, stamps, valueMap, outDoc, reparsed>>
    /\ UNCHANGED <<tagVars, flowVars, spliceVars>>

\* replaceTagsWithValues(pdfBuffer, valueMap)
ReplaceTags ==
    /\ epc = "parsed"
    /\ \E vm \in ValueMapSet :
         /\ valueMap' = vm
         /\ outDoc' = replaceTagsWithValues(doc, vm)
    /\ epc' = "replaced"
    /\ UNCHANGED <<doc, placeholders, roles, stamps, reparsed>>
    /\ UNCHANGED <<tagVars, flowVars, spliceVars>>

\* stampSignature(pdfBuffer, stamps)
StampSignature ==
    /\ epc = "parsed"
    /\ \E ss \in StampsFor(doc) :
         /\ stamps' = ss
         /\ valueMap' = BuildValueMap(EmptyMap, ss)
         /\ outDoc' = stampSignature(doc, ss)
    /\ epc' = "stamped"
    /\ UNCHANGED <<doc, placeholders, roles, reparsed>>
    /\ UNCHANGED <<tagVars, flowVars, spliceVars>>

\* parseTemplatePlaceholders(output)
Reparse ==
    /\ epc \in {"replaced", "stamped"}
    /\ reparsed' = parseTemplatePlaceholders(outDoc)
    /\ epc' = IF epc = "replaced" THEN "replaced-parsed" ELSE "stamped-parsed"
    /\ UNCHANGED <<doc, placeholders, roles, stamps, valueMap, outDoc>>
    /\ UNCHANGED <<tagVars, flowVars, spliceVars>>

\* getUniqueRoles(placeholders), as the upload routes call it on the result
\* of the parse
GetUniqueRoles ==
    /\ epc = "parsed"
    /\ roles' = getUniqueRoles(placeholders)
    /\ epc' = "roles"
    /\ UNCHANGED <<doc, placeholders, stamps, valueMap, outDoc, reparsed>>
    /\ UNCHANGED <<tagVars, flowVars, spliceVars>>

EngineNext == Parse \/ GetUniqueRoles \/ ReplaceTags \/ StampSignature \/ Reparse

(***************************************************************************)
(* The tag parsers as a state machine: a tag that the scan of a stream     *)
(* found is handed to parseTemplatePlaceholders' loop (parseTag) and to    *)
(* the stamper's parseTagInfo.                                             *)
(***************************************************************************)
wInt2 == <<"I","n","t","2">>
wSigma == <<"S","i","g","m","a">>
wFirst_Name == <<"F","_","N">>
wdate1 == <<"d","a","t","e","1">>
wab == <<"a","-","b">>
wNOTE == <<"N","O","T","E">>

PrefixSet ==
    { wSig, wSig2, wDte1, wDate, wInt, wInt2, wint, wTitleA, wLic, wSigma,
      wFirst_Name, << >> }
RoleSet == { wsigner1, wmanager, wdate, wdate1, wab, << >> }
SuffixSet == { wsignature, wdate, winitials, wcomment }
BraceTags ==
    {BraceTag(st, p, r, FALSE, << >>) : st \in BOOLEAN, p \in PrefixSet, r \in RoleSet}
    \cup {BraceTag(st[1], p, r, TRUE, st[2]) :
             st \in BOOLEAN \X SuffixSet, p \in PrefixSet, r \in RoleSet}
BracketTags ==
    {BracketTag(ty, id) : ty \in BracketTypes \cup {wNOTE},
                          id \in {wsigner1, wmanager, wTitleA, wab, << >>}}
\* what String.match hands on: the tags the two patterns match, and the
\* capture group of the bracket pattern
TagSet ==
    {t \in BraceTags \cup BracketTags : IsScanTag(t)}
    \cup {WordTag(w) : w \in BracketTypes}

TagIdle ==
    /\ tag = WordTag(wTEXT)
    /\ tagPlaceholders = << >>
    /\ tagInfo = Unparsed
    /\ tpc = "idle"

TagInit ==
    /\ tag \in TagSet
    /\ tagPlaceholders = << >>
    /\ tagInfo = Unparsed
    /\ tpc = "found"

\* the loop of parseTemplatePlaceholders over one tag location
ParseTagStep ==
    /\ tpc = "found"
    /\ tagPlaceholders' = PlaceholdersOf(<< [tag |-> tag, pageIndex |-> 0, x |-> 0, y |-> 0] >>)
    /\ tpc' = "placed"
    /\ UNCHANGED <<tag, tagInfo>>
    /\ UNCHANGED <<engineVars, flowVars, spliceVars>>

\* parseTagInfo(tag), as getReplacementInfo calls it
ParseTagInfoStep ==
    /\ tpc = "found"
    /\ tagInfo' = parseTagInfo(tag)
    /\ tpc' = "resolved"
    /\ UNCHANGED <<tag, tagPlaceholders>>
    /\ UNCHANGED <<engineVars, flowVars, spliceVars>>

TagNext == ParseTagStep \/ ParseTagInfoStep

(***************************************************************************)
(* The signing workflow of one packet: the admin's requests (create, send, *)
(* resend, cancel) and the signers' POST /:token/sign requests.  Every     *)
(* handler is cut at its awaited database calls; the audit-log writes and  *)
(* the e-mails are part of the step they follow.                           *)
(***************************************************************************)
\* recipients of a packet, signing orders, concurrent sign requests
MaxRecips == 2
MaxOrder == 2
NHandlers == 2
\* tokens ever generated, clock ticks, lifetime of a token in ticks
MaxTokens == 4
MaxTime == 2
TokenTTL == 1

\* 'viewed' rows the audit log takes
MaxViews == 1

Handlers == 1..NHandlers
\* the answer to the last request a signing endpoint served: the endpoint,
\* the token of the URL, the status code, and whether the recipient the
\* token resolved to had a tokenExpiresAt in the past
NoReply == [ep |-> "none", token |-> 0, code |-> "none", expired |-> FALSE]
OrderLists == UNION {[1..n -> 1..MaxOrder] : n \in 1..MaxRecips}


FlowIdle ==
    /\ pstatus = "none"
    /\ recips = << >>
    /\ signatures = {}
    /\ nextToken = 1
    /\ now = 0
    /\ hpc = [h \in Handlers |-> "idle"]
    /\ hrid = [h \in Handlers |-> 0]
    /\ hnext = [h \in Handlers |-> 0]
    /\ apc = "idle"
    /\ arid = 0
    /\ stampCount = 0
    /\ completedCount = 0
    /\ completionEmails = 0
    /\ reply = NoReply
    /\ viewed = 0

\* the database is empty and no request is in flight
FlowInit == FlowIdle

Rids == DOMAIN recips
\* isTokenExpired: new Date() > new Date(expiryDate)
isTokenExpired(expires) == now > expires
\* getTokenExpiryDate: now + TOKEN_EXPIRY_HOURS
getTokenExpiryDate == now + TokenTTL
\* Array.find over recipients ordered by `order': a match that no match of
\* a lower order precedes (the order among equal orders is the database's)
FirstOf(S) == {r \in S : \A q \in S : recips[q].order >= recips[r].order}
\* the update with the token left out of its data
IssueKeepingToken(r, status) ==
    [recips EXCEPT ![r] = [@ EXCEPT !.expires = getTokenExpiryDate, !.status = status]]
\* recipient.update({ token, tokenExpiresAt, status })
Issue(r, status) ==
    [recips EXCEPT ![r] = [@ EXCEPT !.token = nextToken, !.expires = getTokenExpiryDate,
                                    !.status = status]]

\* the clock
Tick ==
    /\ now < MaxTime
    /\ now' = now + 1
    /\ UNCHANGED <<pstatus, recips, signatures, nextToken, handlerVars, adminVars, counters>>
    /\ UNCHANGED <<engineVars, tagVars, answerVars, spliceVars>>

\* POST /api/packets: the packet and its recipients, each with a token
CreatePacket ==
    /\ pstatus = "none"
    /\ \E orders \in OrderLists :
         /\ recips' = [i \in DOMAIN orders |->
                         [order |-> orders[i], status |-> "pending",
                          token |-> nextToken + i - 1, expires |-> getTokenExpiryDate]]
         /\ nextToken' = nextToken + Len(orders)
    /\ pstatus' = "draft"
    /\ UNCHANGED <<signatures, now, handlerVars, adminVars, counters>>
    /\ UNCHANGED <<engineVars, tagVars, answerVars, spliceVars>>

\* POST /:id/send: the read and its checks; a refused request changes
\* nothing
SendRead ==
    /\ apc = "idle" /\ pstatus = "draft"
    /\ \E r \in {q \in Rids : recips[q].order = 1} : arid' = r
    /\ apc' = "send-recipient"
    /\ UNCHANGED <<pstatus, recips, signatures, nextToken, now, handlerVars, counters>>
    /\ UNCHANGED <<engineVars, tagVars, answerVars, spliceVars>>
SendUpdateRecipient ==
    /\ apc = "send-recipient" /\ nextToken <= MaxTokens
    /\ recips' = Issue(arid, "notified")
    /\ nextToken' = nextToken + 1
    /\ apc' = "send-packet"
    /\ UNCHANGED <<pstatus, signatures, now, handlerVars, arid, counters>>
    /\ UNCHANGED <<engineVars, tagVars, answerVars, spliceVars>>
SendUpdatePacket ==
    /\ apc = "send-packet"
    /\ pstatus' = "sent"
    /\ apc' = "idle" /\ arid' = 0
    /\ UNCHANGED <<recips, signatures, nextToken, now, handlerVars, counters>>
    /\ UNCHANGED <<engineVars, tagVars, answerVars, spliceVars>>

\* POST /:id/resend
ResendRead ==
    /\ apc = "idle" /\ pstatus \notin {"none", "completed", "cancelled"}
    /\ \E r \in FirstOf({q \in Rids : recips[q].status \in {"notified", "pending"}}) :
         arid' = r
    /\ apc' = "resend-recipient"
    /\ UNCHANGED <<pstatus, recips, signatures, nextToken, now, handlerVars, counters>>
    /\ UNCHANGED <<engineVars, tagVars, answerVars, spliceVars>>
ResendUpdateRecipient ==
    /\ apc = "resend-recipient" /\ nextToken <= MaxTokens
    /\ recips' = Issue(arid, "notified")
    /\ nextToken' = nextToken + 1
    /\ apc' = "idle" /\ arid' = 0
    /\ UNCHANGED <<pstatus, signatures, now, handlerVars, counters>>
    /\ UNCHANGED <<engineVars, tagVars, answerVars, spliceVars>>

\* POST /:id/cancel
CancelRead ==
    /\ apc = "idle" /\ pstatus \notin {"none", "completed"}
    /\ apc' = "cancel-packet"
    /\ UNCHANGED <<pstatus, recips, signatures, nextToken, now, handlerVars, arid, counters>>
    /\ UNCHANGED <<engineVars, tagVars, answerVars, spliceVars>>
CancelUpdatePacket ==
    /\ apc = "cancel-packet"
    /\ pstatus' = "cancelled"
    /\ apc' = "idle"
    /\ UNCHANGED <<recips, signatures, nextToken, now, handlerVars, arid, counters>>
    /\ UNCHANGED <<engineVars, tagVars, answerVars, spliceVars>>

\* POST /:token/sign.  hpc[h] is the database call the request h is about
\* to make, hrid[h] the recipient its token resolved to.
Goto(h, pc) == hpc' = [hpc EXCEPT ![h] = pc]
\* the request returns: its locals are gone
Return(h) ==
    /\ hpc' = [hpc EXCEPT ![h] = "idle"]
    /\ hrid' = [hrid EXCEPT ![h] = 0]
    /\ hnext' = [hnext EXCEPT ![h] = 0]
TokenOwner(tok) == {r \in Rids : recips[r].token = tok}
pendingBefore(r) ==
    {q \in Rids : recips[q].order < recips[r].order /\ recips[q].status # "signed"}
\* the reply of the checks that follow recipient.findUnique({ where: { token } })
SignCheck(tok) ==
    LET r == CHOOSE q \in TokenOwner(tok) : TRUE
    IN IF TokenOwner(tok) = {} THEN "404"
       ELSE IF isTokenExpired(recips[r].expires) THEN "410"
       ELSE IF recips[r].status = "signed" THEN "400 already signed"
       ELSE IF pendingBefore(r) # {} THEN "400 waiting"
       ELSE "pass"

\* recipient.findUnique and the checks; a refused request returns there
SignRequest(h, tok) ==
    /\ hpc[h] = "idle" /\ pstatus # "none"
    /\ IF SignCheck(tok) = "pass"
       THEN /\ Goto(h, "create")
            /\ hrid' = [hrid EXCEPT ![h] = CHOOSE q \in TokenOwner(tok) : TRUE]
       ELSE UNCHANGED <<hpc, hrid>>
    /\ UNCHANGED <<pstatus, recips, signatures, nextToken, now, hnext, adminVars, counters>>
    /\ UNCHANGED <<engineVars, tagVars, answerVars, spliceVars>>

\* what a signing endpoint answers for the token of its URL
Expired(tok) == \E r \in TokenOwner(tok) : isTokenExpired(recips[r].expires)
Answer(ep, tok, code) == [ep |-> ep, token |-> tok, code |-> code, expired |-> Expired(tok)]

\* POST /:token/sign with its answer kept: a refusal is the status code of
\* the failed check, a request that passes is answered when its last
\* database call returns
SignAnswered(h, tok) ==
    /\ hpc[h] = "idle" /\ pstatus # "none"
    /\ IF SignCheck(tok) = "pass"
       THEN /\ Goto(h, "create")
            /\ hrid' = [hrid EXCEPT ![h] = CHOOSE q \in TokenOwner(tok) : TRUE]
            /\ UNCHANGED reply
       ELSE /\ reply' = Answer("sign", tok, SignCheck(tok))
            /\ UNCHANGED <<hpc, hrid>>
    /\ UNCHANGED <<pstatus, recips, signatures, nextToken, now, hnext, adminVars, counters>>
    /\ UNCHANGED <<engineVars, tagVars, viewed, spliceVars>>

\* GET /:token: the reply of the checks that follow recipient.findUnique
ViewCheck(tok) ==
    LET r == CHOOSE q \in TokenOwner(tok) : TRUE
    IN IF TokenOwner(tok) = {} THEN "404"
       ELSE IF isTokenExpired(recips[r].expires) THEN "410"
       ELSE IF recips[r].status = "signed" THEN "400 already signed"
       ELSE IF pstatus = "cancelled" THEN "400 cancelled"
       ELSE IF pstatus = "completed" THEN "400 completed"
       ELSE IF pendingBefore(r) # {} THEN "400 waiting"
       ELSE "200"
\* GET /:token: a request that passes the checks writes the audit row
\* 'viewed' and returns the session
ViewRequest(tok) ==
    /\ pstatus # "none"
    /\ ViewCheck(tok) = "200" => viewed < MaxViews
    /\ reply' = Answer("view", tok, ViewCheck(tok))
    /\ viewed' = IF ViewCheck(tok) = "200" THEN viewed + 1 ELSE viewed
    /\ UNCHANGED <<pstatus, recips, signatures, nextToken, now, handlerVars, adminVars,
                   counters>>
    /\ UNCHANGED <<engineVars, tagVars, spliceVars>>

\* GET /:token/pdf: recipient.findUnique, then the uploaded file is read
\* and sent (the file of a packet is on disk since the packet was created)
PdfCheck(tok) == IF TokenOwner(tok) = {} THEN "404" ELSE "200"
PdfRequest(tok) ==
    /\ pstatus # "none"
    /\ reply' = Answer("pdf", tok, PdfCheck(tok))
    /\ UNCHANGED <<pstatus, recips, signatures, nextToken, now, handlerVars, adminVars,
                   counters, viewed>>
    /\ UNCHANGED <<engineVars, tagVars, spliceVars>>

\* signature.create: recipientId is unique, a second row for it is refused
\* and the request ends with a 500
SignCreate(h) ==
    /\ hpc[h] = "create"
    /\ IF hrid[h] \in signatures
       THEN Return(h) /\ UNCHANGED signatures
       ELSE /\ signatures' = signatures \cup {hrid[h]}
            /\ Goto(h, "update")
            /\ UNCHANGED <<hrid, hnext>>
    /\ UNCHANGED <<pstatus, recips, nextToken, now, adminVars, counters>>
    /\ UNCHANGED <<engineVars, tagVars, answerVars, spliceVars>>

\* recipient.update({ status: 'signed' })
SignUpdate(h) ==
    /\ hpc[h] = "update"
    /\ recips' = [recips EXCEPT ![hrid[h]].status = "signed"]
    /\ Goto(h, "findMany")
    /\ UNCHANGED <<pstatus, signatures, nextToken, now, hrid, hnext, adminVars, counters>>
    /\ UNCHANGED <<engineVars, tagVars, answerVars, spliceVars>>

\* recipient.findMany, allSigned and nextRecipient
SignFindMany(h) ==
    /\ hpc[h] = "findMany"
    /\ LET pending == {r \in Rids : recips[r].status = "pending"}
       IN IF \A r \in Rids : recips[r].status = "signed"
          THEN Goto(h, "stamp") /\ UNCHANGED <<hrid, hnext>>
          ELSE IF pending = {}
               THEN Return(h)
               ELSE /\ \E n \in FirstOf(pending) : hnext' = [hnext EXCEPT ![h] = n]
                    /\ Goto(h, "notify")
                    /\ UNCHANGED hrid
    /\ UNCHANGED <<pstatus, recips, signatures, nextToken, now, adminVars, counters>>
    /\ UNCHANGED <<engineVars, tagVars, answerVars, spliceVars>>

\* stampSignature and saveStampedPdf
SignStamp(h) ==
    /\ hpc[h] = "stamp"
    /\ stampCount' = stampCount + 1
    /\ Goto(h, "complete")
    /\ UNCHANGED <<pstatus, recips, signatures, nextToken, now, hrid, hnext, adminVars,
                   completedCount, completionEmails>>
    /\ UNCHANGED <<engineVars, tagVars, answerVars, spliceVars>>

\* signingPacket.update({ status: 'completed' })
SignComplete(h) ==
    /\ hpc[h] = "complete"
    /\ pstatus' = "completed"
    /\ completedCount' = completedCount + 1
    /\ Goto(h, "emails")
    /\ UNCHANGED <<recips, signatures, nextToken, now, hrid, hnext, adminVars,
                   stampCount, completionEmails>>
    /\ UNCHANGED <<engineVars, tagVars, answerVars, spliceVars>>

\* sendCompletionEmail to the admin and to every recipient
SignEmails(h) ==
    /\ hpc[h] = "emails"
    /\ completionEmails' = completionEmails + 1
    /\ Return(h)
    /\ UNCHANGED <<pstatus, recips, signatures, nextToken, now, adminVars,
                   stampCount, completedCount>>
    /\ UNCHANGED <<engineVars, tagVars, answerVars, spliceVars>>

\* recipient.update of the next signer: new token, 'notified'
SignNotify(h) ==
    /\ hpc[h] = "notify" /\ nextToken <= MaxTokens
    /\ recips' = Issue(hnext[h], "notified")
    /\ nextToken' = nextToken + 1
    /\ Goto(h, "progress")
    /\ UNCHANGED <<pstatus, signatures, now, hrid, hnext, adminVars, counters>>
    /\ UNCHANGED <<engineVars, tagVars, answerVars, spliceVars>>

\* signingPacket.update({ status: 'in_progress' }) and sendSigningRequest
SignProgress(h) ==
    /\ hpc[h] = "progress"
    /\ pstatus' = "in_progress"
    /\ Return(h)
    /\ UNCHANGED <<recips, signatures, nextToken, now, adminVars, counters>>
    /\ UNCHANGED <<engineVars, tagVars, answerVars, spliceVars>>

FlowNext ==
    \/ Tick
    \/ CreatePacket
    \/ SendRead \/ SendUpdateRecipient \/ SendUpdatePacket
    \/ ResendRead \/ ResendUpdateRecipient
    \/ CancelRead \/ CancelUpdatePacket
    \/ \E h \in Handlers, tok \in 1..(nextToken - 1) : SignRequest(h, tok)
    \/ \E h \in Handlers : SignCreate(h)
    \/ \E h \in Handlers : SignUpdate(h)
    \/ \E h \in Handlers : SignFindMany(h)
    \/ \E h \in Handlers : SignStamp(h)
    \/ \E h \in Handlers : SignComplete(h)
    \/ \E h \in Handlers : SignEmails(h)
    \/ \E h \in Handlers : SignNotify(h)
    \/ \E h \in Handlers : SignProgress(h)

\* PATCH /:id with a recipients list: the read and its check; a packet
\* that is not a draft is refused
PatchRead ==
    /\ apc = "idle" /\ pstatus = "draft"
    /\ apc' = "patch-delete"
    /\ UNCHANGED <<pstatus, recips, signatures, nextToken, now, handlerVars, arid, counters>>
    /\ UNCHANGED <<engineVars, tagVars, answerVars, spliceVars>>
\* recipient.deleteMany({ where: { packetId } }).  The rows are gone, and
\* a signing request that holds the id of one of them fails at its next
\* write to that row.  What the delete does with the Signature rows of the
\* recipients is set by the schema's referential action: they are deleted
\* with them, or the delete is refused and the request ends with a 500.
PatchDelete ==
    /\ apc = "patch-delete"
    /\ \/ /\ recips' = << >>
          /\ signatures' = {}
          /\ hpc' = [h \in Handlers |->
                       IF hpc[h] \in {"create", "update", "notify"} THEN "gone" ELSE hpc[h]]
          /\ apc' = "patch-create"
          /\ UNCHANGED <<hrid, hnext>>
       \/ /\ signatures # {}
          /\ apc' = "idle"
          /\ UNCHANGED <<recips, signatures, handlerVars>>
    /\ UNCHANGED <<pstatus, nextToken, now, arid, counters>>
    /\ UNCHANGED <<engineVars, tagVars, answerVars, spliceVars>>
\* signingPacket.update with recipients: { create: [...] }: the new
\* recipients, each 'pending' with a token of its own
PatchCreate ==
    /\ apc = "patch-create"
    /\ \E orders \in OrderLists :
         /\ nextToken + Len(orders) - 1 <= MaxTokens
         /\ recips' = [i \in DOMAIN orders |->
                         [order |-> orders[i], status |-> "pending",
                          token |-> nextToken + i - 1, expires |-> getTokenExpiryDate]]
         /\ nextToken' = nextToken + Len(orders)
    /\ apc' = "idle"
    /\ UNCHANGED <<pstatus, signatures, now, handlerVars, arid, counters>>
    /\ UNCHANGED <<engineVars, tagVars, answerVars, spliceVars>>
\* a write to a recipient row that is gone throws: the request ends with
\* a 500
SignGone(h) ==
    /\ hpc[h] = "gone"
    /\ Return(h)
    /\ UNCHANGED <<pstatus, recips, signatures, nextToken, now, adminVars, counters>>
    /\ UNCHANGED <<engineVars, tagVars, answerVars, spliceVars>>

\* the requests the interleavings of signing, cancelling and editing a
\* packet are made of
PatchNext ==
    \/ CreatePacket
    \/ SendRead \/ SendUpdateRecipient \/ SendUpdatePacket
    \/ CancelRead \/ CancelUpdatePacket
    \/ PatchRead \/ PatchDelete \/ PatchCreate
    \/ \E h \in Handlers, tok \in 1..(nextToken - 1) : SignRequest(h, tok)
    \/ \E h \in Handlers : SignCreate(h)
    \/ \E h \in Handlers : SignUpdate(h)
    \/ \E h \in Handlers : SignFindMany(h)
    \/ \E h \in Handlers : SignStamp(h)
    \/ \E h \in Handlers : SignComplete(h)
    \/ \E h \in Handlers : SignEmails(h)
    \/ \E h \in Handlers : SignNotify(h)
    \/ \E h \in Handlers : SignProgress(h)
    \/ \E h \in Handlers : SignGone(h)

(***************************************************************************)
(* The stream loop of replaceTagsWithValues on the bytes of a document.    *)
(* The content is a sequence of units: the keywords "stream" and           *)
(* "endstream", the end-of-line "eol", the units of deflated data and the  *)
(* bytes outside the streams.  Deflated data is written unit by unit:      *)
(* "Cg" is the deflated form of the text unit "g".  "u" is data that       *)
(* zlib.inflateSync rejects.                                               *)
(***************************************************************************)
\* the text units: a tag of one unit whose value has two ("g"), a tag of
\* two units whose value has one ("h1" "h2"), a tag without a value ("n"),
\* other text ("d") and a unit of a value ("v")
Inflated(c) ==
    CASE c = "Cg" -> "g" [] c = "Ch1" -> "h1" [] c = "Ch2" -> "h2"
      [] c = "Cn" -> "n" [] c = "Cd" -> "d" [] c = "Cv" -> "v"
Deflated(t) ==
    CASE t = "g" -> "Cg" [] t = "h1" -> "Ch1" [] t = "h2" -> "Ch2"
      [] t = "n" -> "Cn" [] t = "d" -> "Cd" [] t = "v" -> "Cv"
DeflatedUnits == {"Cg", "Ch1", "Ch2", "Cn", "Cd", "Cv"}
\* zlib.inflateSync(streamData) succeeds
Inflates(data) == \A k \in 1..Len(data) : data[k] \in DeflatedUnits
inflateSync(data) == [k \in 1..Len(data) |-> Inflated(data[k])]
deflateSync(text) == [k \in 1..Len(text) |-> Deflated(text[k])]
\* text.replace over the tag patterns: a tag with a value gives way to its
\* value, a tag without one stays
RECURSIVE ReplaceText(_)
ReplaceText(text) ==
    IF text = << >> THEN << >>
    ELSE IF Head(text) = "g" THEN <<"v", "v">> \o ReplaceText(Tail(text))
    ELSE IF Len(text) >= 2 /\ Head(text) = "h1" /\ text[2] = "h2"
         THEN <<"v">> \o ReplaceText(Tail(Tail(text)))
    ELSE <<Head(text)>> \o ReplaceText(Tail(text))
\* modified: some replacement callback returned a value
TextModified(text) ==
    \E k \in 1..Len(text) :
       \/ text[k] = "g"
       \/ text[k] = "h1" /\ k < Len(text) /\ text[k + 1] = "h2"

\* streamRegex = /stream(\r?\n)([\s\S]*?)(\r?\n)endstream/g run from
\* position from (1-based): the first "stream" eol at or after it that a
\* later eol "endstream" closes, and the first such close
StartsAt(s, p) == p + 1 <= Len(s) /\ s[p] = "stream" /\ s[p + 1] = "eol"
ClosesAt(s, q) == q + 1 <= Len(s) /\ s[q] = "eol" /\ s[q + 1] = "endstream"
Closes(s, p) == {q \in (p + 2)..Len(s) : ClosesAt(s, q)}
Starts(s, from) == {p \in from..Len(s) : StartsAt(s, p) /\ Closes(s, p) # {}}
HasMatch(s, from) == Starts(s, from) # {}
MatchStart(s, from) == Min(Starts(s, from))
MatchClose(s, from) == Min(Closes(s, MatchStart(s, from)))
\* match[2], the stream data
MatchData(s, from) == SubSeq(s, MatchStart(s, from) + 2, MatchClose(s, from) - 1)
\* 'stream' + match[1] + recompressed + match[3] + 'endstream'
NewContent(data) ==
    <<"stream", "eol">> \o deflateSync(ReplaceText(inflateSync(data))) \o <<"eol", "endstream">>
\* the continue branches of the loop: the size guard and a failed inflate
Skipped(data) == Len(data) > SizeGuard \/ ~Inflates(data)

\* the documents: three streams between bytes that all differ
SpliceData ==
    { <<"Cd">>, <<"Cg">>, <<"Ch1", "Ch2", "Cd">>, <<"Cn">>, <<"u", "Cg">>,
      <<"Cg", "Ch1", "Ch2">> }
StreamSpan(data) == <<"stream", "eol">> \o data \o <<"eol", "endstream">>
SpliceDocs ==
    { <<"x1">> \o StreamSpan(d1) \o <<"x2">> \o StreamSpan(d2) \o <<"x3">>
         \o StreamSpan(d3) \o <<"x4">> : d1 \in SpliceData, d2 \in SpliceData, d3 \in SpliceData }

SpliceIdle ==
    /\ content = << >>
    /\ lastIndex = 0
    /\ streamReplacements = << >>
    /\ result = << >>
    /\ spliceAt = 0
    /\ spc = "idle"

SpliceInit ==
    /\ content \in SpliceDocs
    /\ lastIndex = 0
    /\ streamReplacements = << >>
    /\ result = << >>
    /\ spliceAt = 0
    /\ spc = "scan"

\* one turn of the while loop that ends in a continue, or that finds the
\* stream not modified: nothing is recorded
ScanPass ==
    /\ spc = "scan"
    /\ HasMatch(content, lastIndex + 1)
    /\ LET data == MatchData(content, lastIndex + 1) IN
         \/ Skipped(data)
         \/ ~Skipped(data) /\ ~TextModified(inflateSync(data))
    /\ lastIndex' = MatchClose(content, lastIndex + 1) + 1
    /\ UNCHANGED <<content, streamReplacements, result, spliceAt, spc>>
    /\ UNCHANGED <<engineVars, tagVars, flowVars>>

\* one turn of the while loop on a modified stream: the replacement is
\* recorded with the offsets of the match in the original content
\* (start = match.index, end = match.index + match[0].length, 0-based)
ScanPush ==
    /\ spc = "scan"
    /\ HasMatch(content, lastIndex + 1)
    /\ LET data == MatchData(content, lastIndex + 1) IN
         /\ ~Skipped(data)
         /\ TextModified(inflateSync(data))
         /\ streamReplacements' = Append(streamReplacements,
               [start |-> MatchStart(content, lastIndex + 1) - 1,
                end |-> MatchClose(content, lastIndex + 1) + 1,
                newContent |-> NewContent(data)])
    /\ lastIndex' = MatchClose(content, lastIndex + 1) + 1
    /\ UNCHANGED <<content, result, spliceAt, spc>>
    /\ UNCHANGED <<engineVars, tagVars, flowVars>>

\* streamRegex.exec returns null: let result = content, and the splice loop
\* starts at i = streamReplacements.length - 1
ScanEnd ==
    /\ spc = "scan"
    /\ ~HasMatch(content, lastIndex + 1)
    /\ result' = content
    /\ spliceAt' = Len(streamReplacements)
    /\ spc' = IF streamReplacements = << >> THEN "done" ELSE "splice"
    /\ UNCHANGED <<content, lastIndex, streamReplacements>>
    /\ UNCHANGED <<engineVars, tagVars, flowVars>>

\* the splice loop taken from the first replacement to the last
SpliceStepForwards ==
    /\ spc = "splice"
    /\ LET r == streamReplacements[Len(streamReplacements) - spliceAt + 1] IN
         result' = SubSeq(result, 1, r.start) \o r.newContent
                      \o SubSeq(result, r.end + 1, Len(result))
    /\ spliceAt' = spliceAt - 1
    /\ spc' = IF spliceAt = 1 THEN "done" ELSE "splice"
    /\ UNCHANGED <<content, lastIndex, streamReplacements>>
    /\ UNCHANGED <<engineVars, tagVars, flowVars>>

\* one turn of the splice loop, from the last replacement to the first:
\* result = result.substring(0, r.start) + r.newContent + result.substring(r.end)
SpliceStep ==
    /\ spc = "splice"
    /\ LET r == streamReplacements[spliceAt] IN
         result' = SubSeq(result, 1, r.start) \o r.newContent
                      \o SubSeq(result, r.end + 1, Len(result))
    /\ spliceAt' = spliceAt - 1
    /\ spc' = IF spliceAt = 1 THEN "done" ELSE "splice"
    /\ UNCHANGED <<content, lastIndex, streamReplacements>>
    /\ UNCHANGED <<engineVars, tagVars, flowVars>>

SpliceNext == ScanPass \/ ScanPush \/ ScanEnd \/ SpliceStep

(***************************************************************************)
(* The specifications                                                      *)
(***************************************************************************)
\* the engine on a template
InitEngine == EngineInit /\ TagIdle /\ FlowIdle /\ SpliceIdle
SpecEngine == InitEngine /\ [][EngineNext]_vars
\* the tag parsers on a tag
InitTag == TagInit /\ EngineIdle /\ FlowIdle /\ SpliceIdle
SpecTag == InitTag /\ [][TagNext]_vars
\* the signing workflow of a packet
InitFlow == FlowInit /\ EngineIdle /\ TagIdle /\ SpliceIdle
SpecFlow == InitFlow /\ [][FlowNext]_vars
\* the routing of a sent packet: the packet is created and sent, its tokens
\* stay valid, and the sign requests run concurrently.  Every request that
\* has started runs to its end, and a recipient who is 'notified' keeps
\* submitting with the token it holds until a submission passes the checks.
Submits(h, r) ==
    r \in Rids /\ recips[r].status = "notified" /\ SignRequest(h, recips[r].token)
RouteNext ==
    \/ CreatePacket
    \/ SendRead \/ SendUpdateRecipient \/ SendUpdatePacket
    \/ \E h \in Handlers, tok \in 1..(nextToken - 1) : SignRequest(h, tok)
    \/ \E h \in Handlers : SignCreate(h)
    \/ \E h \in Handlers : SignUpdate(h)
    \/ \E h \in Handlers : SignFindMany(h)
    \/ \E h \in Handlers : SignStamp(h)
    \/ \E h \in Handlers : SignComplete(h)
    \/ \E h \in Handlers : SignEmails(h)
    \/ \E h \in Handlers : SignNotify(h)
    \/ \E h \in Handlers : SignProgress(h)
RouteFair ==
    /\ \A h \in Handlers :
         /\ WF_vars(SignCreate(h)) /\ WF_vars(SignUpdate(h)) /\ WF_vars(SignFindMany(h))
         /\ WF_vars(SignStamp(h)) /\ WF_vars(SignComplete(h)) /\ WF_vars(SignEmails(h))
         /\ WF_vars(SignNotify(h)) /\ WF_vars(SignProgress(h))
    /\ \A r \in 1..MaxRecips : SF_vars(\E h \in Handlers : Submits(h, r))
InitRoute == FlowInit /\ EngineIdle /\ TagIdle /\ SpliceIdle
SpecRoute == InitRoute /\ [][RouteNext]_vars /\ RouteFair
\* the signing links of a packet: the admin's requests and one signer's
\* requests to the three signing endpoints
\* the signer's requests are answered one at a time
OneSigner == {CHOOSE h \in Handlers : TRUE}
LinkNext ==
    \/ Tick
    \/ CreatePacket
    \/ SendRead \/ SendUpdateRecipient \/ SendUpdatePacket
    \/ ResendRead \/ ResendUpdateRecipient
    \/ CancelRead \/ CancelUpdatePacket
    \/ \E tok \in 1..(nextToken - 1) : ViewRequest(tok)
    \/ \E tok \in 1..(nextToken - 1) : PdfRequest(tok)
    \/ \E tok \in 1..(nextToken - 1) : \E h \in OneSigner : SignAnswered(h, tok)
    \/ \E h \in OneSigner : SignCreate(h)
    \/ \E h \in OneSigner : SignUpdate(h)
    \/ \E h \in OneSigner : SignFindMany(h)
    \/ \E h \in OneSigner : SignStamp(h)
    \/ \E h \in OneSigner : SignComplete(h)
    \/ \E h \in OneSigner : SignEmails(h)
    \/ \E h \in OneSigner : SignNotify(h)
    \/ \E h \in OneSigner : SignProgress(h)
InitLink == FlowInit /\ EngineIdle /\ TagIdle /\ SpliceIdle
SpecLink == InitLink /\ [][LinkNext]_vars
\* signing, cancelling and editing a packet
InitPatch == FlowInit /\ EngineIdle /\ TagIdle /\ SpliceIdle
SpecPatch == InitPatch /\ [][PatchNext]_vars
\* the stream loop on the bytes of a document
InitSplice == SpliceInit /\ EngineIdle /\ TagIdle /\ FlowIdle
SpecSplice == InitSplice /\ [][SpliceNext]_vars

(***************************************************************************)
(* What the specification says of a document, for the properties below     *)
(***************************************************************************)
\* all string pieces of a document's streams, in file order
RECURSIVE DocPieces(_)
DocPieces(d) ==
    IF d = << >> THEN << >>
    ELSE (IF Head(d).kind = "stream" THEN StreamPieces(Head(d).ops) ELSE << >>)
         \o DocPieces(Tail(d))
DocTags(d) == {DocPieces(d)[i].tag : i \in {j \in 1..Len(DocPieces(d)) : DocPieces(d)[j].k = "tag"}}
Occurrences(d, t) == Cardinality({i \in 1..Len(DocPieces(d)) : DocPieces(d)[i] = TagPiece(t)})
TagsRemain(d) == \E t \in DocTags(d) : IsScanTag(t)
PlaceholdersFor(ps, t) == {i \in 1..Len(ps) : ps[i].originalTag = t}
Coordinates(ps, t) == {<<ps[i].pageNumber, ps[i].x, ps[i].y>> : i \in PlaceholdersFor(ps, t)}

\* the operators of a stream that show a tag
TagOps(ops) == {i \in 1..Len(ops) : HasTag(ShownPieces(ops[i]))}
Shows(o, t) == \E k \in 1..Len(ShownPieces(o)) : ShownPieces(o)[k] = TagPiece(t)
\* the coordinate the specification gives the operator at i: the (e, f) of
\* the last Tm before it plus the Td/TD deltas after that Tm
SpecPosition(ops, i) ==
    LET tm == LastBefore(ops, i, "Tm")
    IN [x |-> ops[tm].x + TdSum(ops, tm + 1, i - 1).x,
        y |-> ops[tm].y + TdSum(ops, tm + 1, i - 1).y]
OutsideNoiseBand(pos) == pos.x > 20 \/ pos.y > 50

\* a one-page document whose content stream stands first in the file and in
\* which every tag is shown after a Tm, away from the origin, no two shows
\* of one tag at the same coordinate
PlainPage(d) ==
    /\ Len(d) = 2 /\ d[1].kind = "stream" /\ d[2].kind = "page"
    /\ \A i \in TagOps(d[1].ops) :
         /\ LastBefore(d[1].ops, i, "Tm") > 0
         /\ OutsideNoiseBand(SpecPosition(d[1].ops, i))
    /\ \A i, j \in TagOps(d[1].ops) :
         i # j /\ ShownPieces(d[1].ops[i]) = ShownPieces(d[1].ops[j])
            => SpecPosition(d[1].ops, i) # SpecPosition(d[1].ops, j)

(***************************************************************************)
(* Properties of the engine                                                *)
(***************************************************************************)
\* C1: a tag that occurs N times in a document, at distinct positions, has
\* exactly N placeholders in the parse result, with N distinct
\* (pageNumber, x, y) coordinates.
C1_OnePlaceholderPerOccurrence ==
    epc = "parsed" /\ PlainPage(doc)
       => \A t \in DocTags(doc) :
            /\ Cardinality(PlaceholdersFor(placeholders, t)) = Occurrences(doc, t)
            /\ Cardinality(Coordinates(placeholders, t)) = Occurrences(doc, t)
\* C1, the failing case: the content stream shows {{Sig_es_:signer1:signature}}
\* at (50, 700) and again at (50, 600), and the parse returns one placeholder.
C1_RepeatedTagParsedOnce ==
    /\ epc = "parsed"
    /\ doc = OnePageDoc(<<Tm(50, 700), Tj(<<TagPiece(tSig1)>>),
                          Tm(50, 600), Tj(<<TagPiece(tSig1)>>)>>, TRUE, TRUE)
    /\ Len(placeholders) = 1

Covered(vm, ps) ==
    \A i \in 1..Len(ps) : ReplacementKey(ps[i]) \in DOMAIN vm /\ vm[ReplacementKey(ps[i])] # << >>
\* C2: when the ValueMap has an entry for the key of every placeholder the
\* parse returned, no tag remains after replaceTagsWithValues and parsing
\* the output returns no placeholder.
C2_StampedDocumentHasNoTags ==
    epc = "replaced-parsed" /\ PlainPage(doc) /\ Covered(valueMap, placeholders)
       => ~ TagsRemain(outDoc) /\ reparsed = << >>
\* C2, the failing case: the stream shows a signature tag and a text tag,
\* the parse returns the signature tag alone, its key has a value, and the
\* text tag is found when the output is parsed.
C2_UnparsedTagSurvives ==
    /\ epc = "replaced-parsed"
    /\ PlainPage(doc) /\ Covered(valueMap, placeholders)
    /\ Len(placeholders) = 1 /\ placeholders[1].originalTag = tSig1
    /\ Len(reparsed) = 1 /\ reparsed[1].originalTag = tTitle

DistinctRoles(ss) == \A i, j \in 1..Len(ss) : i # j => ss[i].role # ss[j].role
SignatureTagsOf(d, role) ==
    {t \in DocTags(d) : parseTagInfo(t).type = "SIGNATURE" /\ parseTagInfo(t).role = role}
\* all text the document shows that is not a tag
ShownText(d) ==
    {DocPieces(d)[i].s : i \in {j \in 1..Len(DocPieces(d)) : DocPieces(d)[j].k = "txt"}}
\* C3: stampSignature with stamps of distinct roles puts, in place of every
\* SIGNATURE tag of role r, the typedName of the stamp of role r, whatever
\* the order of the stamps.
C3_EachTagGetsItsSignersName ==
    epc = "stamped" /\ DistinctRoles(stamps)
       => \A i \in 1..Len(stamps) : \A t \in SignatureTagsOf(doc, stamps[i].role) :
            /\ ReplacementValue(valueMap, t) = stamps[i].typedName
            /\ stamps[i].typedName \in ShownText(outDoc)
\* C3, the failing case: stamps for signer1 (Jane) and signer2 (Bob), and
\* the tag of signer1 is replaced by Bob.
C3_Signer1ShowsSigner2 ==
    /\ epc = "stamped"
    /\ stamps = << Stamp(wsigner1, vJane, FieldsTitle, vDay), Stamp(wsigner2, vBob, EmptyMap, vDay) >>
    /\ doc = OnePageDoc(<<Tm(50, 700), Tj(<<TagPiece(tSig1)>>)>>, TRUE, TRUE)
    /\ ShownText(outDoc) = {vBob}

NoEntry(vm, t) ==
    parseTagInfo(t) = Unparsed \/ ReplacementKey(parseTagInfo(t)) \notin DOMAIN vm
\* C4: replaceTagsWithValues leaves every tag without a ValueMap entry in
\* the output as it was; with an empty ValueMap the output is the input; and
\* parsing the output returns the same placeholder for every such tag.
C4_UntouchedTagsKeepTheirPlaceholders ==
    epc = "replaced-parsed" /\ PlainPage(doc)
       => /\ \A t \in DocTags(doc) :
               NoEntry(valueMap, t) => Occurrences(outDoc, t) = Occurrences(doc, t)
          /\ (valueMap = EmptyMap => outDoc = doc)
          /\ \A i \in 1..Len(placeholders) :
               NoEntry(valueMap, placeholders[i].originalTag)
                  => \E j \in 1..Len(reparsed) : reparsed[j] = placeholders[i]
\* C4, the failing case: [[SIGNATURE:manager]] at (50, 600) follows the
\* signer1 tag at (50, 700); only signer1 has a value; the manager's
\* placeholder is at (50, 700) before the stamping and at (50, 600) after.
C4_SurvivingTagMoves ==
    /\ epc = "replaced-parsed"
    /\ doc = OnePageDoc(<<Tm(50, 700), Tj(<<TagPiece(tSig1)>>),
                          Tm(50, 600), Tj(<<TagPiece(tMgr)>>)>>, TRUE, TRUE)
    /\ valueMap = MapOf({KeySig1}, vJane)
    /\ \E i \in 1..Len(placeholders) :
         placeholders[i].originalTag = tMgr /\ placeholders[i].y = 700
    /\ \E j \in 1..Len(reparsed) : reparsed[j].originalTag = tMgr /\ reparsed[j].y = 600

\* a document of the two-page family: object 5 is the Form XObject, drawn
\* by the content stream of page 2 (object 4) with  cm /Fm1 Do
\* and the composed coordinate of its tag lies away from the origin
IsXObjectDoc(d) ==
    /\ Len(d) = 5 /\ d[2].kind = "stream" /\ d[3].kind = "stream"
    /\ LastBefore(d[3].ops, Len(d[3].ops), "Tm") > 0
    /\ OutsideNoiseBand([x |-> d[2].ops[1].x + SpecPosition(d[3].ops, Len(d[3].ops)).x,
                         y |-> d[2].ops[1].y + SpecPosition(d[3].ops, Len(d[3].ops)).y])
\* C5: a tag inside a Form XObject has the coordinate of the XObject's
\* placement origin (the cm before its Do) plus the tag's own Tm/Td
\* position inside the XObject, on the page that draws the XObject.
C5_XObjectCoordinateComposes ==
    epc = "parsed" /\ IsXObjectDoc(doc)
       => /\ Len(placeholders) >= 1
          /\ \A i \in 1..Len(placeholders) :
               /\ placeholders[i].pageNumber = 2
               /\ placeholders[i].x
                    = doc[2].ops[1].x + SpecPosition(doc[3].ops, Len(doc[3].ops)).x
               /\ placeholders[i].y
                    = doc[2].ops[1].y + SpecPosition(doc[3].ops, Len(doc[3].ops)).y
\* C5, the failing case: placement 1 0 0 1 100 200 cm on page 2, the tag at
\* Tm (10, 15) inside the XObject; the placeholder is at (100, 200).
C5_TagAtPlacementOrigin ==
    /\ epc = "parsed"
    /\ doc = TwoPageDoc(<<Tm(10, 15), Tj(<<TagPiece(tSig1)>>)>>, Cm(100, 200), TRUE)
    /\ Len(placeholders) = 1
    /\ placeholders[1].pageNumber = 2
    /\ placeholders[1].x = 100 /\ placeholders[1].y = 200

\* C6: a tag shown by Tj or TJ in a page's own content stream has the
\* coordinate (e, f) of the last Tm before it plus the Td/TD deltas after
\* that Tm.
C6_PageStreamCoordinate ==
    epc = "parsed" /\ PlainPage(doc)
    /\ Cardinality(TagOps(doc[1].ops)) = 1
    /\ LastBefore(doc[1].ops, Len(doc[1].ops) + 1, "cm") = 0
       => /\ Len(placeholders) >= 1
          /\ \A i \in 1..Len(placeholders) : \A k \in TagOps(doc[1].ops) :
               /\ placeholders[i].pageNumber = 1
               /\ placeholders[i].x = SpecPosition(doc[1].ops, k).x
               /\ placeholders[i].y = SpecPosition(doc[1].ops, k).y
\* C6, the failing case: 1 0 0 1 50 700 Tm, 0 -20 Td, then the tag in a TJ
\* array; the placeholder is at (50, 700), not (50, 680).
C6_ArrayShowIgnoresTd ==
    /\ epc = "parsed"
    /\ doc = OnePageDoc(<<Tm(50, 700), Td(0, -20), TJ(<< <<TagPiece(tSig1)>> >>)>>, TRUE, TRUE)
    /\ Len(placeholders) = 1
    /\ placeholders[1].x = 50 /\ placeholders[1].y = 700

\* the content stream of a one-page document
PageOps(d) == d[CHOOSE i \in 1..Len(d) : d[i].kind = "stream"].ops
\* the coordinate the specification resolves for the operator at i: the
\* origin when no Tm stands before it
ResolvedPosition(ops, i) ==
    IF LastBefore(ops, i, "Tm") = 0 THEN [x |-> 0, y |-> 0] ELSE SpecPosition(ops, i)
\* every show of tag t resolves to the origin, with no cm before it
OnlyAtOrigin(ops, t) ==
    \A i \in TagOps(ops) :
       Shows(ops[i], t)
          => /\ ResolvedPosition(ops, i) = [x |-> 0, y |-> 0]
             /\ LastBefore(ops, i, "cm") = 0
\* no page draws an XObject
NothingDrawn(d) ==
    \A i \in 1..Len(d) : \A k \in 1..Len(d[i].ops) : d[i].ops[k].op # "Do"
\* C11: no placeholder has the coordinate (0, 0); a tag of a page stream
\* with no Tm before any of its shows, and a tag of an XObject that no page
\* draws, has no placeholder.
C11_OriginTagsNeverEmitted ==
    epc = "parsed"
       => /\ \A i \in 1..Len(placeholders) :
               ~ (placeholders[i].x = 0 /\ placeholders[i].y = 0)
          /\ Len(doc) = 2
                => \A t \in DocTags(doc) :
                      OnlyAtOrigin(PageOps(doc), t) => PlaceholdersFor(placeholders, t) = {}
          /\ doc \in ScopedDocs /\ NothingDrawn(doc) => placeholders = << >>
\* C11, the failing case: the signer1 tag is shown by a TJ array with no Tm
\* before it, the signer2 tag by a Tj after 1 0 0 1 50 700 Tm; the parse
\* returns the signer1 tag at (50, 700).
C11_OriginTagAtAnothersPosition ==
    /\ epc = "parsed"
    /\ doc = OnePageDoc(<<TJ(<< <<TagPiece(tSig1)>> >>),
                          Tm(50, 700), Tj(<<TagPiece(tSig2)>>)>>, TRUE, TRUE)
    /\ Len(placeholders) = 1
    /\ placeholders[1].originalTag = tSig1
    /\ placeholders[1].x = 50 /\ placeholders[1].y = 700

\* the roles of the placeholders that are not TEXT placeholders
NonTextRoles(ps) == {ps[i].role : i \in {j \in 1..Len(ps) : ps[j].type # "TEXT"}}
\* C16: getUniqueRoles returns the distinct roles of the placeholders whose
\* type is not TEXT, each once; a role that only TEXT placeholders carry is
\* not returned.
C16_RolesAreNonTextRoles ==
    epc = "roles"
       => /\ Range(roles) = NonTextRoles(placeholders)
          /\ \A i, j \in 1..Len(roles) : i # j => roles[i] # roles[j]
\* C16, the failing case: the page shows (Employee: {{TitleA_es_:signer1}})
\* alone, a TEXT placeholder of role signer1, and getUniqueRoles returns
\* signer1.
C16_TextRoleReturned ==
    /\ epc = "roles"
    /\ doc = OnePageDoc(<<Tm(50, 700), Tj(<<TxtPiece(wEmployee), TagPiece(tTitle)>>)>>,
                        TRUE, TRUE)
    /\ Len(placeholders) = 1 /\ placeholders[1].type = "TEXT"
    /\ roles = <<wsigner1>>

\* C15: a tag that the scan finds and no grammar accepts has no placeholder
\* and takes no placeholder from the other tags of the document, and the
\* stamper leaves it in the output as it was.
C15_UnparseableTagIsSkipped ==
    tFoo \in DocTags(doc)
       => /\ epc = "parsed"
                => /\ PlaceholdersFor(placeholders, tFoo) = {}
                   /\ \A t \in DocTags(doc) \ {tFoo} : PlaceholdersFor(placeholders, t) # {}
          /\ epc \in {"replaced", "stamped"}
                => Occurrences(outDoc, tFoo) = Occurrences(doc, tFoo)
\* C15, the failing case: {{Foo_es_:signer1:signature}} at (50, 700) and
\* {{Sig_es_:signer1:signature}} at (50, 600); the parse returns nothing.
C15_UnparseableTagHidesTheNext ==
    /\ epc = "parsed"
    /\ doc = FooDoc(Tj(<<TagPiece(tFoo)>>), Tj(<<TagPiece(tSig1)>>), TRUE)
    /\ placeholders = << >>

\* the characters of a string literal keep it balanced: a backslash stands
\* before every parenthesis and backslash
RECURSIVE WellEscaped(_)
WellEscaped(str) ==
    IF str = << >> THEN TRUE
    ELSE IF Head(str) = "\\" THEN Len(str) >= 2 /\ WellEscaped(Drop(str, 2))
    ELSE IF Head(str) \in {"(", ")"} THEN FALSE
    ELSE WellEscaped(Tail(str))
\* the literal read back: the characters without their escaping backslashes
RECURSIVE Unescaped(_)
Unescaped(str) ==
    IF str = << >> THEN << >>
    ELSE IF Head(str) = "\\" /\ Len(str) >= 2
         THEN <<str[2]>> \o Unescaped(Drop(str, 2))
         ELSE <<Head(str)>> \o Unescaped(Tail(str))
\* the tags of a document that have a value in the ValueMap
ReplacedTags(d, vm) == {t \in DocTags(d) : IsScanTag(t) /\ HasReplacement(vm, t)}
\* C17: every value that replaceTagsWithValues puts into a string literal
\* stands there with its parentheses and backslashes escaped, whether the
\* tag was the whole string or a part of it, in compressed and in
\* uncompressed streams.
C17_ValuesAreEscaped ==
    epc = "replaced"
       => /\ \A str \in ShownText(outDoc) : WellEscaped(str)
          /\ \A t \in ReplacedTags(doc, valueMap) :
               \E str \in ShownText(outDoc) : Unescaped(str) = ReplacementValue(valueMap, t)
\* C17, the failing case: (Employee: {{TitleA_es_:signer1}}) Tj with the
\* value J(\ for TitleA; the output string is (Employee: J(\) .
C17_RawValueInLongerString ==
    /\ epc = "replaced"
    /\ doc = OnePageDoc(<<Tm(50, 700), Tj(<<TxtPiece(wEmployee), TagPiece(tTitle)>>)>>,
                        TRUE, TRUE)
    /\ valueMap = MapOf({KeySig1, KeyTitle}, vParen)
    /\ outDoc[1].ops = <<Tm(50, 700), Tj(<<TxtPiece(wEmployee), TxtPiece(vParen)>>)>>

\* the show-text operators of a stream that show a value of the ValueMap
ShowsValue(o, vm) ==
    \E k \in 1..Len(ShownPieces(o)) :
       /\ ShownPieces(o)[k].k = "txt"
       /\ \E key \in DOMAIN vm : vm[key] # << >> /\ Unescaped(ShownPieces(o)[k].s) = vm[key]
ValueOps(ops, vm) == {k \in 1..Len(ops) : ShowsValue(ops[k], vm)}
\* the styling of a signature:  q  shear cm  colour rg  (value) Tj  Q
SignatureStyled(ops, k) ==
    /\ k >= 4 /\ k + 1 <= Len(ops)
    /\ ops[k - 3] = SaveQ /\ ops[k - 2] = ShearCm /\ ops[k - 1].op = "rg"
    /\ ops[k + 1] = RestoreQ
\* the styling of a date or text field:  colour rg  (value) Tj , no shear
FieldStyled(ops, k) ==
    /\ k >= 2 /\ ops[k - 1].op = "rg"
    /\ ~ (k >= 3 /\ ops[k - 2] = ShearCm)
\* C18: every show-text operator in which replaceTagsWithValues replaced a
\* tag carries the styling of its type: a SIGNATURE the save/restore pair
\* with the shear and the colour, a DATE or TEXT the colour alone.
C18_ReplacedTagsAreStyled ==
    epc = "replaced"
       => \A i \in StreamIdx(outDoc) : \A k \in ValueOps(outDoc[i].ops, valueMap) :
            /\ SignatureStyled(outDoc[i].ops, k) \/ FieldStyled(outDoc[i].ops, k)
            /\ (\A t \in ReplacedTags(doc, valueMap) : ReplacementType(t) = "SIGNATURE")
                  => SignatureStyled(outDoc[i].ops, k)
            /\ (\A t \in ReplacedTags(doc, valueMap) : ReplacementType(t) # "SIGNATURE")
                  => FieldStyled(outDoc[i].ops, k)
\* C18, the failing case: (Employee: {{TitleA_es_:signer1}}) Tj with the
\* value Jane for TitleA becomes (Employee: Jane) Tj with no colour change.
C18_FieldWithoutColour ==
    /\ epc = "replaced"
    /\ doc = OnePageDoc(<<Tm(50, 700), Tj(<<TxtPiece(wEmployee), TagPiece(tTitle)>>)>>,
                        TRUE, TRUE)
    /\ valueMap = MapOf({KeyTitle}, vJane)
    /\ outDoc[1].ops = <<Tm(50, 700), Tj(<<TxtPiece(wEmployee), TxtPiece(vJane)>>)>>

\* the stamps of a role
StampsOf(ss, role) == {j \in 1..Len(ss) : ss[j].role = role}
\* the dates of the stamps of other roles
OtherDates(ss, role) == {dateValue(ss[j]) : j \in {k \in 1..Len(ss) : ss[k].role # role}}
\* C19: stampSignature replaces every DATE tag whose placeholder has role r
\* by the date of the stamp of role r (its date text, else its timestamp),
\* whatever the tag's prefix or grammar: the tag is not left in the output
\* and no other signer's date stands in its place.
C19_DateTagsGetTheirSignersDate ==
    epc = "stamped" /\ doc \in DateDocs /\ DistinctRoles(stamps)
       => \A i \in 1..Len(placeholders) : \A j \in StampsOf(stamps, placeholders[i].role) :
            placeholders[i].type = "DATE"
               => /\ Occurrences(outDoc, placeholders[i].originalTag) = 0
                  /\ dateValue(stamps[j]) \in ShownText(outDoc)
                  /\ ShownText(outDoc) \cap OtherDates(stamps, placeholders[i].role)
                        \subseteq {dateValue(stamps[j])}
\* C19, the failing case: {{Dte2_es_:signer2:date}} and the stamp of signer2;
\* the tag is in the output as it was.
C19_Dte2LeftUnstamped ==
    /\ epc = "stamped"
    /\ doc = DateDoc(tDte2)
    /\ stamps = << Stamp(wsigner2, vBob, EmptyMap, vDay2) >>
    /\ Len(placeholders) = 1 /\ placeholders[1].type = "DATE"
    /\ placeholders[1].role = wsigner2
    /\ outDoc = doc

\* the object that name `name' stands for on the page object at i: the
\* entry of the page's own /XObject dictionary, and only when the page has
\* no entry of that name, an entry of any other dictionary
ScopedTargets(d, i, name) ==
    IF DictHas(d[i].xobj, name) THEN {DictGet(d[i].xobj, name)}
    ELSE {DictGet(d[j].xobj, name) : j \in {k \in XObjectDicts(d) : DictHas(d[k].xobj, name)}}
\* the pages (1-based) whose content streams draw object n, names resolved
\* in the scope of the drawing page
DrawingPages(d, n) ==
    {pageObjToIndex(d, d[i].num) + 1 :
        i \in {j \in PageObjects(d) :
                 \E c \in 1..Len(d[j].contents) :
                    LET st == ContentStreamAt(d, d[j].contents[c])
                    IN st # 0 /\ \E k \in DoOperators(d[st].ops) :
                          n \in ScopedTargets(d, j, d[st].ops[k + 1].name)}}
\* C20: a placement is recorded for an XObject only when a page draws it
\* under a name that the page's own resources map to it (or, when the page
\* maps the name to nothing, some other dictionary does); the tags of the
\* XObject are placed on such a page.
C20_PlacementsAreScoped ==
    epc = "parsed" /\ doc \in ScopedDocs
       => /\ \A n \in {5, 6} : HasPlacement(doc, n) => DrawingPages(doc, n) # {}
          /\ \A i \in 1..Len(placeholders) :
               /\ placeholders[i].originalTag = tSig1
                     => placeholders[i].pageNumber \in DrawingPages(doc, 5)
               /\ placeholders[i].originalTag = tMgr
                     => placeholders[i].pageNumber \in DrawingPages(doc, 6)
\* C20, the failing case: Fm1 is object 5 on page 1 and object 6 on page 2;
\* page 1 draws  1 0 0 1 100 200 cm /Fm1 Do  and page 2 draws nothing; the
\* manager tag of object 6 is placed on page 1 at (100, 200).
C20_OtherPagesObjectPlaced ==
    /\ epc = "parsed"
    /\ doc = ScopedDoc(<<Cm(100, 200), Do("Fm1")>>, PlainText,
                       << [name |-> "Fm1", num |-> 6] >>)
    /\ HasPlacement(doc, 6)
    /\ \E i \in 1..Len(placeholders) :
         /\ placeholders[i].originalTag = tMgr
         /\ placeholders[i].pageNumber = 1
         /\ placeholders[i].x = 100 /\ placeholders[i].y = 200

\* the document was parsed / has an output
WasParsed == epc # "loaded" /\ epc # "idle"
HasOutput == epc \in {"replaced", "replaced-parsed", "stamped", "stamped-parsed"}

\* C21: a tag cut in two strings of one TJ array is parsed and stamped as
\* the same tag in one Tj string is: the parse returns the same
\* placeholders and the output shows the same text.
C21_SplitTagAsWhole ==
    \A t \in SplitTags, at \in {"marker", "pre", "role"}, flate \in BOOLEAN :
        doc = SplitDoc(t, at, flate) =>
           /\ WasParsed => placeholders = parseTemplatePlaceholders(WholeDoc(t, flate))
           /\ HasOutput
                => DocPieces(outDoc)
                     = DocPieces(replaceTagsWithValues(WholeDoc(t, flate), valueMap))
\* a tag cut between its two opening braces or brackets has no placeholder
\* and stays in the output, although the ValueMap holds its value
C21_SplitTagLost ==
    \E t \in SplitTags, flate \in BOOLEAN :
        /\ doc = SplitDoc(t, "marker", flate)
        /\ epc = "replaced"
        /\ placeholders = << >>
        /\ HasReplacement(valueMap, t)
        /\ t \in DocTags(outDoc)

\* the same document with its streams flate-compressed, and the operators
\* of the streams of a document, stream by stream
Compressed(d) == [i \in 1..Len(d) |-> IF d[i].kind = "stream" THEN [d[i] EXCEPT !.flate = TRUE] ELSE d[i]]
Uncompressed(d) == \A i \in 1..Len(d) : d[i].kind = "stream" => ~ d[i].flate
StreamOps(d) == [i \in 1..Len(d) |-> d[i].ops]

\* C25: a document whose streams are stored uncompressed is parsed into the
\* placeholders of the same document with its streams compressed, and its
\* stamped streams hold the same operators (values, escaping, styling).
C25_CompressionIndependent ==
    (Uncompressed(doc) /\ doc # << >>) =>
       /\ WasParsed => placeholders = parseTemplatePlaceholders(Compressed(doc))
       /\ HasOutput
            => StreamOps(outDoc) = StreamOps(replaceTagsWithValues(Compressed(doc), valueMap))
\* an uncompressed stream whose only operator after the Tm shows a signature
\* tag: the output shows the value with no operator around it, the
\* compressed document's output has the colour operators
C25_UncompressedOutputDiffers ==
    /\ Uncompressed(doc) /\ Len(doc) = 2 /\ HasOutput
    /\ \E i \in 1..Len(doc) :
         /\ doc[i].kind = "stream" /\ Len(doc[i].ops) = 2
         /\ IsWholeTagTj(doc[i].ops[2]) /\ HasReplacement(valueMap, doc[i].ops[2].str[1].tag)
         /\ Len(outDoc[i].ops) = 2
         /\ Len(replaceTagsWithValues(Compressed(doc), valueMap)[i].ops) > 2

\* C26: a stream whose payload is longer than the size guard is skipped by
\* both operations: the parse returns no placeholder from it and the stamp
\* leaves it as it is; a stream of at most the size guard is parsed and
\* stamped.
C26_SizeGuardSkipsBoth ==
    \A len \in {SizeGuard - 1, SizeGuard, SizeGuard + 1}, flate \in BOOLEAN :
        doc = SizedDoc(len, flate) =>
           IF len > SizeGuard
           THEN /\ WasParsed => placeholders = << >>
                /\ HasOutput => outDoc = doc
           ELSE /\ WasParsed => placeholders # << >>
                /\ (HasOutput /\ HasReplacement(valueMap, tSig1)) => ~ TagsRemain(outDoc)
\* an uncompressed stream one byte longer than the size guard, skipped by
\* the parse, is rewritten by the stamp
C26_OversizedStreamRewritten ==
    /\ doc = SizedDoc(SizeGuard + 1, FALSE)
    /\ HasOutput /\ placeholders = << >>
    /\ HasReplacement(valueMap, tSig1)
    /\ outDoc # doc /\ ~ TagsRemain(outDoc)

\* the noise band: a coordinate of small magnitude in both axes
NearOrigin(pos) == Abs(pos.x) <= 20 /\ Abs(pos.y) <= 50
\* a one-page document, content stream first, every tag shown after a Tm
Positioned(d) ==
    /\ Len(d) = 2 /\ d[1].kind = "stream" /\ d[2].kind = "page"
    /\ d[1].len < SizeGuard
    /\ \A i \in TagOps(d[1].ops) : LastBefore(d[1].ops, i, "Tm") > 0

\* C29: every parseable tag occurrence whose own coordinate lies outside
\* the noise band, left of or below the origin included, has a placeholder,
\* whatever the other occurrences of its stream resolve to.
C29_OnlyNearOriginDropped ==
    (WasParsed /\ Positioned(doc)) =>
       \A i \in TagOps(doc[1].ops) :
          \A t \in {u \in DocTags(doc) : Shows(doc[1].ops[i], u)} :
             (parseTag(t) # Unparsed /\ ~ NearOrigin(SpecPosition(doc[1].ops, i)))
                => PlaceholdersFor(placeholders, t) # {}
\* the only tag of the document is shown at (-100, -200) and has no
\* placeholder
C29_NegativeCoordinateDropped ==
    /\ doc = NegDoc(-100, -200)
    /\ WasParsed
    /\ placeholders = << >>

\* the ValueMap has an entry for the key of the tag
HasEntry(vm, t) == parseTagInfo(t) # Unparsed /\ ReplacementKey(parseTagInfo(t)) \in DOMAIN vm

\* C30: a tag stays in the stamped output only when the ValueMap has no
\* entry for its key: a text field the signer submitted blank has an entry,
\* and its tag is gone from the output.
C30_TagLeftOnlyWithoutEntry ==
    (doc \in BlankDocs /\ epc \in {"stamped", "stamped-parsed"}) =>
       \A t \in DocTags(doc) : HasEntry(valueMap, t) => t \notin DocTags(outDoc)
\* signer1 submitted the field TitleA blank, the ValueMap holds TEXT:TitleA
\* with the empty string, and the output still shows the tag
C30_BlankFieldLeavesTag ==
    /\ doc \in BlankDocs /\ epc = "stamped"
    /\ KeyTitle \in DOMAIN valueMap /\ valueMap[KeyTitle] = << >>
    /\ tTitle \in DocTags(outDoc)

\* the page objects of a document that have a /Contents reference, and the
\* index the ascending order of their object numbers gives each
PagesWithContents(d) ==
    {i \in 1..Len(d) : d[i].kind \in {"page", "latepage"} /\ Len(d[i].contents) > 0}
IndexInOrder(d, i) == Cardinality({j \in PagesWithContents(d) : d[j].num < d[i].num})
\* the stream object of number n
StreamOf(d, n) == CHOOSE i \in 1..Len(d) : d[i].kind = "stream" /\ d[i].num = n

\* C28: the page objects with a /Contents reference have the indices
\* 0..n-1 in ascending order of their object numbers, every content stream
\* of a page maps to the index of that page, and the placeholders of a
\* content stream have that index + 1 as their pageNumber.
C28_PageIndicesInObjectOrder ==
    doc \in ThreePageDocs =>
       \A i \in PagesWithContents(doc) :
          /\ doc[i].num \in PageNums(doc)
          /\ pageObjToIndex(doc, doc[i].num) = IndexInOrder(doc, i)
          /\ \A c \in 1..Len(doc[i].contents) :
               /\ HasPageIndex(doc, doc[i].contents[c])
               /\ streamToPageIndex(doc, doc[i].contents[c]) = IndexInOrder(doc, i)
               /\ WasParsed =>
                    \E p \in 1..Len(placeholders) :
                       /\ Shows(doc[StreamOf(doc, doc[i].contents[c])].ops[2],
                                placeholders[p].originalTag)
                       /\ placeholders[p].pageNumber = IndexInOrder(doc, i) + 1
\* the second page's /Contents key stands after its nested dictionary: the
\* page has no index, its tag has no placeholder, and the third page's tag
\* is reported on page 2
C28_PageAfterNestedDictLost ==
    /\ doc = ThreePageDoc(LatePageObj(2, <<4>>, << >>))
    /\ WasParsed
    /\ PlaceholdersFor(placeholders, tSig2) = {}
    /\ \E p \in PlaceholdersFor(placeholders, tMgr) : placeholders[p].pageNumber = 2

\* the content with every modified stream...endstream span replaced by its
\* recompressed form, written from left to right without offsets
RECURSIVE Spliced(_)
Spliced(s) ==
    IF ~HasMatch(s, 1) THEN s
    ELSE LET p == MatchStart(s, 1)
             q == MatchClose(s, 1)
             data == MatchData(s, 1)
         IN SubSeq(s, 1, p - 1)
              \o (IF ~Skipped(data) /\ TextModified(inflateSync(data))
                  THEN NewContent(data) ELSE SubSeq(s, p, q + 1))
              \o Spliced(SubSeq(s, q + 2, Len(s)))

\* C27: after the splice phase the document is the original with exactly
\* the modified stream...endstream spans replaced by their recompressed
\* content, whatever the lengths of the replacements; every other byte and
\* every unmodified stream is where it was.
C27_SpliceIsOffsetSafe == spc = "done" => result = Spliced(content)
\* three streams were modified, one by a longer and one by a shorter
\* replacement, and the splice has run
C27_ThreeStreamsSpliced ==
    /\ spc = "done"
    /\ Len(streamReplacements) = 3
    /\ \E a, b \in 1..3 :
         /\ Len(streamReplacements[a].newContent)
               > streamReplacements[a].end - streamReplacements[a].start
         /\ Len(streamReplacements[b].newContent)
               < streamReplacements[b].end - streamReplacements[b].start
    /\ result # content

\* a POST /:token/sign passes its checks on this step
SignAccepted == \E h \in Handlers : hpc[h] = "idle" /\ hpc'[h] = "create"
Quiescent == \A h \in Handlers : hpc[h] = "idle"

\* C22: once a packet is cancelled (and no signing request is in flight),
\* every POST /:token/sign is rejected, no Signature is created, no
\* recipient changes, and the status stays 'cancelled'.
C22_NoSigningAfterCancel ==
    [][(pstatus = "cancelled" /\ Quiescent)
         => /\ ~SignAccepted
            /\ pstatus' = "cancelled"
            /\ signatures' = signatures
            /\ recips' = recips]_vars
\* GET /:token answered 'cancelled', and the packet is 'completed' all the
\* same: of the two submissions the one signer made in turn, the second
\* at least came after the cancellation
C22_CompletedAfterCancel ==
    /\ pstatus = "completed"
    /\ Len(recips) = 2
    /\ reply.ep = "view" /\ reply.code = "400 cancelled"

\* the status changes a packet may go through
StatusOrder ==
    { <<"none", "draft">>, <<"draft", "sent">>, <<"sent", "in_progress">>,
      <<"in_progress", "completed">>, <<"sent", "completed">>,
      <<"draft", "cancelled">>, <<"sent", "cancelled">>, <<"in_progress", "cancelled">> }
\* C24: the status moves only along draft -> sent -> in_progress ->
\* completed (or sent -> completed), or from draft, sent or in_progress to
\* cancelled, and no POST /:token/sign is accepted while the packet is a
\* draft.
C24_StatusOrderKept ==
    [][/\ pstatus' # pstatus => <<pstatus, pstatus'>> \in StatusOrder
       /\ pstatus = "draft" => ~SignAccepted]_vars
\* a draft that was never sent holds a signature
C24_SignedInDraft ==
    /\ pstatus = "draft"
    /\ apc = "idle"
    /\ signatures # {}

\* signedPdfPath is written by the update that sets 'completed', and by
\* nothing else
SignedPdfPathSet == completedCount > 0
\* C23: a packet is 'completed' only if all of its recipients are 'signed'
\* and its signedPdfPath is set, whatever the interleaving of sign, cancel
\* and PATCH requests.
C23_CompletedMeansAllSigned ==
    pstatus = "completed" =>
       /\ \A r \in Rids : recips[r].status = "signed"
       /\ SignedPdfPathSet
\* a 'completed' packet of two recipients, one of them 'notified' although
\* the Signature of that recipient is stored: the request of the other
\* signer (who signed with the token POST /:id/send issued) found the
\* recipient 'pending' and wrote 'notified' over 'signed'
C23_CompletedWithNotifiedSigner ==
    /\ pstatus = "completed"
    /\ apc = "idle"
    /\ Len(recips) = 2
    /\ \E r, q \in Rids :
         /\ recips[r].status = "notified" /\ r \in signatures
         /\ recips[q].status = "signed" /\ recips[q].token > Len(recips)
         /\ \E h \in Handlers : hpc[h] = "progress" /\ hrid[h] = q /\ hnext[h] = r

(***************************************************************************)
(* Properties of the tag parsers                                           *)
(***************************************************************************)
\* the forms of the grammar table and what the table says each resolves to
IsBracketForm(t) == t.g = "bracket" /\ t.pre \in BracketTypes /\ Len(t.role) > 0
IsSigForm(t) == t.g = "brace" /\ ~ t.star /\ t.pre = wSig /\ t.colon /\ t.suf = wsignature
IsDteForm(t) == t.g = "brace" /\ ~ t.star /\ t.pre = wDte1 /\ t.colon /\ t.suf = wdate
IsIntForm(t) == t.g = "brace" /\ ~ t.star /\ t.pre = wInt /\ t.colon /\ t.suf = winitials
IsOtherPrefixForm(t) ==
    t.g = "brace" /\ ~ t.star /\ ~ t.colon /\ Len(t.pre) > 0 /\ t.pre \notin {wSig, wDte1, wInt}
InGrammarTable(t) ==
    \/ IsBracketForm(t)
    \/ Len(t.role) > 0 /\ (IsSigForm(t) \/ IsDteForm(t) \/ IsIntForm(t) \/ IsOtherPrefixForm(t))
TableResult(t) ==
    IF t.g = "bracket"
    THEN IF t.pre = wTEXT THEN Parsed("TEXT", wsigner, t.role)
         ELSE Parsed(TypeName(t.pre), t.role, NoField)
    ELSE IF IsSigForm(t) THEN Parsed("SIGNATURE", t.role, NoField)
    ELSE IF IsDteForm(t) THEN Parsed("DATE", t.role, wDte1)
    ELSE IF IsIntForm(t) THEN Parsed("TEXT", t.role, wInt)
    ELSE Parsed("TEXT", t.role, t.pre)
ResolvesTo(ps, r) ==
    /\ Len(ps) = 1
    /\ ps[1].type = r.type /\ ps[1].role = r.role /\ ps[1].fieldName = r.fieldName

InGrammarTableAmended(t) ==
    \/ IsBracketForm(t)
    \/ /\ IsWord(t.role)
       /\ \/ IsSigForm(t)
          \/ IsIntForm(t)
          \/ IsDteForm(t) /\ t.role # wdate
          \/ /\ IsOtherPrefixForm(t)
             /\ ~ StartsWith(t.role, wdate) /\ ~ StartsWith(t.role, wsignature)
             /\ ~ ("_" \in Range(t.pre))
             /\ ~ StartsWith(t.pre, wSig) /\ ~ StartsWith(t.pre, wDate)
             /\ ~ StartsWith(t.pre, wDte)
             /\ ~ (StartsWith(ToLower(t.pre), wint) /\ AllDigits(Drop(t.pre, 3)))
C10_PlaceholdersWellFormed ==
    \A i \in 1..Len(tagPlaceholders) :
       /\ tagPlaceholders[i].type \in {"SIGNATURE", "DATE", "TEXT"}
       /\ tagPlaceholders[i].type \in {"SIGNATURE", "DATE"} => Len(tagPlaceholders[i].role) > 0
       /\ tagPlaceholders[i].type = "TEXT"
             => tagPlaceholders[i].fieldName # NoField /\ Len(tagPlaceholders[i].fieldName) > 0
\* C10, a case: {{Date_es_:}} names no role and its placeholder is a DATE of
\* role signer.
C10_RolelessDateTag ==
    /\ tpc = "placed"
    /\ tag = BraceTag(FALSE, wDate, << >>, FALSE, << >>)
    /\ Len(tagPlaceholders) = 1
    /\ tagPlaceholders[1].type = "DATE" /\ tagPlaceholders[1].role = wsigner

(***************************************************************************)
(* Properties of the signing workflow                                      *)
(***************************************************************************)
DistinctOrders == \A i, j \in Rids : i # j => recips[i].order # recips[j].order
Quiet == apc = "idle" /\ \A h \in Handlers : hpc[h] = "idle"

\* C7: in every reachable state of a packet, a recipient whose status is
\* 'signed' has only 'signed' recipients of strictly lower order before it.
C7_SequentialSigning ==
    DistinctOrders
       => \A i, j \in Rids :
            recips[i].status = "signed" /\ recips[j].order < recips[i].order
               => recips[j].status = "signed"
\* C7, the failing case: no request is in flight, the recipient of order 2
\* is 'signed' and holds a signature, the recipient of order 1 is 'notified'.
C7_SignedBehindNotified ==
    /\ Quiet /\ DistinctOrders
    /\ \E i, j \in Rids :
         /\ recips[j].order < recips[i].order
         /\ recips[i].status = "signed" /\ i \in signatures
         /\ recips[j].status = "notified"

\* C8: for one packet, stampSignature runs at most once, the packet is set
\* to 'completed' at most once and the completion e-mails go out at most
\* once, however concurrent sign requests interleave at their database calls.
C8_CompletedAtMostOnce ==
    DistinctOrders /\ pstatus # "draft"
       => stampCount <= 1 /\ completedCount <= 1 /\ completionEmails <= 1
\* C8, the failing case: two recipients of orders 1 and 2, both requests
\* read 'all signed', and the packet is stamped, completed and mailed twice.
C8_CompletedTwice ==
    /\ Quiet /\ DistinctOrders /\ pstatus = "completed"
    /\ stampCount = 2 /\ completedCount = 2 /\ completionEmails = 2


(***************************************************************************)
(* Properties of the signing links                                         *)
(***************************************************************************)
\* the step of POST /:id/resend that gives the recipient r its new token
ResendStep(r) == apc = "resend-recipient" /\ apc' = "idle" /\ arid = r
\* every signing endpoint answers 404 for the token
AllRefuse(tok) == ViewCheck(tok) = "404" /\ SignCheck(tok) = "404" /\ PdfCheck(tok) = "404"

\* C13: once POST /:id/resend has given a recipient a new token, the token
\* the recipient held before resolves to no recipient, GET /:token,
\* POST /:token/sign and GET /:token/pdf all answer 404 for it, now and
\* ever after, and the new token resolves to that recipient alone.
C13_ResendInvalidatesTheLink ==
    [][/\ \A r \in Rids, tok \in 1..MaxTokens :
            (ResendStep(r) /\ recips[r].token = tok) =>
                /\ AllRefuse(tok)'
                /\ recips'[r].token # tok
                /\ \A new \in 1..MaxTokens :
                      recips'[r].token = new => TokenOwner(new) = {} /\ TokenOwner(new)' = {r}
       /\ \A tok \in 1..(nextToken - 1) : TokenOwner(tok) = {} => AllRefuse(tok)'
       /\ (reply' # reply /\ TokenOwner(reply'.token) = {}) => reply'.code = "404"]_vars
\* a draft packet whose first recipient was sent a new link, and the
\* submission made with a link that recipient held before was answered 404
C13_OldLinkAnswered404 ==
    /\ pstatus = "draft" /\ apc = "idle" /\ \A h \in Handlers : hpc[h] = "idle"
    /\ \E r \in Rids : recips[r].status = "notified"
    /\ reply.ep = "sign" /\ reply.code = "404"
    /\ reply.token \in 1..(nextToken - 1) /\ TokenOwner(reply.token) = {}

\* the request answered in this step was made with the token tok
AnsweredFor(tok) == reply' # reply /\ reply'.token = tok
\* the submission that passed the checks in this step
Accepted(h) == hpc[h] = "idle" /\ hpc'[h] = "create"

\* C14: a request made with a token whose tokenExpiresAt is in the past is
\* refused by GET /:token, POST /:token/sign and GET /:token/pdf alike, and
\* leaves the recipients, the signatures, the packet and the audit log as
\* they were.
C14_ExpiredTokensAreRefused ==
    [][/\ \A tok \in 1..MaxTokens :
            (AnsweredFor(tok) /\ Expired(tok)) =>
                /\ reply'.code # "200"
                /\ UNCHANGED <<pstatus, recips, signatures, viewed, counters>>
       /\ \A h \in Handlers :
            Accepted(h) => ~ isTokenExpired(recips[hrid'[h]].expires)]_vars
\* the PDF preview was served for a token that had expired
C14_ExpiredTokenServed ==
    /\ reply.ep = "pdf" /\ reply.code = "200" /\ reply.expired
    /\ Expired(reply.token)

(***************************************************************************)
(* Properties of the routing                                               *)
(***************************************************************************)
\* the packet was sent: POST /:id/send has returned, and no recipient has
\* submitted a signature yet
JustSent == pstatus = "sent" /\ Quiet /\ signatures = {}

\* C12: a packet that was sent is routed from signer to signer: when every
\* notified recipient keeps signing with its valid token, every recipient
\* is eventually notified or signed and the packet eventually becomes
\* 'completed'.
C12_SentPacketsComplete ==
    /\ \A r \in 1..MaxRecips :
         (JustSent /\ r \in Rids)
            ~> (r \in Rids /\ recips[r].status \in {"notified", "signed"})
    /\ JustSent ~> (pstatus = "completed")
\* the packet was sent (no recipient holds the token of its creation),
\* every recipient has signed, no request is in flight, and the routing
\* has set a recipient that holds a signature back to 'notified' and the
\* packet to 'in_progress'
C12_SignedRecipientNotifiedAgain ==
    /\ Quiet /\ DistinctOrders
    /\ \A r \in Rids : recips[r].token > Len(recips)
    /\ pstatus = "in_progress" /\ completedCount = 0
    /\ signatures = Rids
    /\ \E r \in Rids : recips[r].status = "notified"

=============================================================================
